---- MODULE Spec2Model ----
(***************************************************************************)
(* A model of the build optimizer: the equipment model (equipment.py),     *)
(* the combination calculator and the target search (calculator.py).       *)
(*                                                                         *)
(* Names of the catalogs are the English names the specification uses for  *)
(* the source's strings: the attributes are Health, Melee, Grenade, Super, *)
(* Class, Weapon in the order of EQUIPMENT_ATTRIBUTES; None stands for     *)
(* Python's None.  Attribute values are integers; a search score is kept   *)
(* multiplied by 10, so that the overshoot weight 0.1 stays integral.      *)
(***************************************************************************)
EXTENDS Integers, Sequences, FiniteSets, TLC

VARIABLES
    b_base,        \* _calculate_optimal_bonuses: argument base_attributes
    b_target,      \* _calculate_optimal_bonuses: argument target_attributes
    b_preferred,   \* _calculate_optimal_bonuses: argument preferred_attr
    b_result,      \* _calculate_optimal_bonuses: the returned bonus_allocation
    b_pc,          \* "call" before the call, "returned" after it, "idle": no call
    inventory,     \* the class inventory: its items, in insertion order
    inventory0,    \* the inventory as it was before any search started
    set_bonuses,   \* EquipmentCalculator.set_bonuses
    pc,            \* per find_combination_by_target call: where it stands
    args,          \* per call: its arguments
    relevant,      \* per call: relevant_equipments (ids)
    num_equipments,\* per call: the subset size of the outer loop
    combo_index,   \* per call: position in combinations(relevant, num_equipments)
    locked,        \* per call: locked_equipments of the current combo (ids)
    config_index,  \* per call: position in penalty_combinations
    original_penalties, \* per call: the dict of the current trial
    best,          \* per call: the locals best_*
    evaluated,     \* per call: the candidates scored so far, in order
    pending,       \* per call: "return" or "raise" while the finally block runs
    returned,      \* per call: the dict it returned
    e_input,       \* Equipment(...): the constructor's arguments
    e_item,        \* the constructed item, None before and on failure
    e_error,       \* the ValueError the constructor raised, None for none
    e_projection,  \* what get_max_level_attributes returned for the item
    e_pc,          \* "new", then "built" or "failed", then "projected"; "idle"
    k_ids,         \* calculate_combination: argument equipment_ids
    k_exotic,      \* calculate_combination: argument exotic_equipment
    k_result,      \* calculate_combination: the returned dict
    k_pc,          \* "call" before the call, "returned" after it, "idle": no call
    a_target,      \* _analyze_required_equipments: argument target_attributes
    a_current,     \* its current_result["total_attributes"], or None
    a_exotic_type, \* its argument exotic_type
    a_result,      \* the returned list
    a_pc,          \* "call" before the call, "returned" after it, "idle": no call
    inventories,   \* ClassInventoryManager.inventories: class -> its items
    equipment_counter, \* EquipmentManager.equipment_counter: <<class, type>> -> n
    storage,       \* the items of the equipment storage file
    issued,        \* the ids add_equipment_simple gave out since the start-up
    m_last,        \* the last manager or inventory call: arguments and outcome
    m_log          \* the inventory calls made so far, in order

bvars == <<b_base, b_target, b_preferred, b_result, b_pc>>

svars == <<inventory, inventory0, set_bonuses, pc, args, relevant, num_equipments,
           combo_index, locked, config_index, original_penalties, best, evaluated,
           pending, returned>>

evars == <<e_input, e_item, e_error, e_projection, e_pc>>

kvars == <<k_ids, k_exotic, k_result, k_pc>>

avars == <<a_target, a_current, a_exotic_type, a_result, a_pc>>

mvars == <<inventories, equipment_counter, storage, issued, m_last, m_log>>

xvars == <<evars, kvars, avars, mvars>>

vars == <<bvars, svars, xvars>>

None == "None"

\* no item is being constructed
ItemIdle ==
    /\ e_input = <<>> /\ e_item = None /\ e_error = None
    /\ e_projection = <<>> /\ e_pc = "idle"

\* no calculate_combination call of its own is running
CalcIdle ==
    /\ k_ids = <<>> /\ k_exotic = None /\ k_result = <<>> /\ k_pc = "idle"

\* no _analyze_required_equipments call of its own is running
AnalyzeIdle ==
    /\ a_target = <<>> /\ a_current = None /\ a_exotic_type = None
    /\ a_result = <<>> /\ a_pc = "idle"

\* no equipment manager is in use
StoreIdle ==
    /\ inventories = <<>> /\ equipment_counter = <<>> /\ storage = <<>>
    /\ issued = {} /\ m_last = None /\ m_log = <<>>

\* equipment.py: the catalog of attributes, in order
EQUIPMENT_ATTRIBUTES == <<"Health", "Melee", "Grenade", "Super", "Class", "Weapon">>

Attrs == {EQUIPMENT_ATTRIBUTES[i] : i \in 1..Len(EQUIPMENT_ATTRIBUTES)}

\* calculator.py: total_bonuses = 5, each unit worth +10
total_bonuses == 5

BONUS_VALUE == 10

-----------------------------------------------------------------------------
(* Helpers for Python dicts.  A dict with insertion order is a sequence of *)
(* <<key, value>> pairs; a dict whose order is never read is a function.   *)

Min(a, b) == IF a < b THEN a ELSE b

Max(a, b) == IF a > b THEN a ELSE b

\* d.get(k, 0) on a function
Get(d, k) == IF k \in DOMAIN d THEN d[k] ELSE 0

\* d[k] = v on a function
Put(d, k, v) == [x \in (DOMAIN d) \cup {k} |-> IF x = k THEN v ELSE d[x]]

\* the keys of an ordered dict, in iteration order, and as a set
Keys(od) == [i \in 1..Len(od) |-> od[i][1]]

KeySet(od) == {od[i][1] : i \in 1..Len(od)}

\* od[k] of an ordered dict that holds k
ValueOf(od, k) == LET i == CHOOSE j \in 1..Len(od) : od[j][1] = k IN od[i][2]

\* sum(d.values()) of a function
RECURSIVE SumOver(_, _)
SumOver(d, S) ==
    IF S = {} THEN 0
    ELSE LET k == CHOOSE x \in S : TRUE IN d[k] + SumOver(d, S \ {k})

SumValues(d) == SumOver(d, DOMAIN d)

\* s with its i-th element removed
RemoveAt(s, i) == [j \in 1..(Len(s) - 1) |-> IF j < i THEN s[j] ELSE s[j + 1]]

-----------------------------------------------------------------------------
(* EquipmentCalculator._calculate_optimal_bonuses                          *)

\* needed: the target attributes with target - base > 0, in target order,
\* each with its need
Needed(base_attributes, target_attributes) ==
    LET withNeed == [i \in 1..Len(target_attributes) |->
                        <<target_attributes[i][1],
                          Max(0, target_attributes[i][2]
                                   - Get(base_attributes, target_attributes[i][1]))>>]
    IN SelectSeq(withNeed, LAMBDA e : e[2] > 0)

\* sorted(needed.items(), key=lambda x: x[1], reverse=True): a stable sort,
\* so equal needs keep the order of the dict
RECURSIVE SortedNeeds(_)
SortedNeeds(needed) ==
    IF needed = <<>> THEN <<>>
    ELSE LET i == CHOOSE j \in 1..Len(needed) :
                     /\ \A k \in 1..Len(needed) : needed[k][2] <= needed[j][2]
                     /\ \A k \in 1..(j - 1) : needed[k][2] < needed[j][2]
         IN <<needed[i]>> \o SortedNeeds(RemoveAt(needed, i))

\* a variant that rounds the units down
BonusesNeeded_Floor(need_value) == need_value \div 10

\* bonuses_needed = int((need_value + 9) // 10)
BonusesNeeded(need_value) == (need_value + 9) \div 10

\* for attr, need_value in sorted_needs: if remaining <= 0: break;
\*     bonus_allocation[attr] += 1; remaining -= 1
\* (one pass over the sorted needs: each attribute gets at most one unit)
DistributeRemaining(bonus_allocation, needed, remaining) ==
    LET sorted_needs == SortedNeeds(needed)
        getting == {sorted_needs[i][1] : i \in 1..Min(remaining, Len(sorted_needs))}
    IN [a \in (DOMAIN bonus_allocation) \cup getting |->
           Get(bonus_allocation, a) + (IF a \in getting THEN 1 ELSE 0)]

\* a faulty split: the remainder goes to the last attributes of the target dict
EvenSplit_RemainderLast(target_attributes) ==
    LET n == Len(target_attributes)
    IN [a \in KeySet(target_attributes) |->
           LET i == CHOOSE j \in 1..n : target_attributes[j][1] = a
           IN (total_bonuses \div n) + (IF n - i < total_bonuses % n THEN 1 ELSE 0)]

\* the split used when no target attribute has a need: total_bonuses // n each,
\* one more for the first total_bonuses % n attributes of the target dict
EvenSplit(target_attributes) ==
    LET n == Len(target_attributes)
    IN [a \in KeySet(target_attributes) |->
           LET i == CHOOSE j \in 1..n : target_attributes[j][1] = a
           IN (total_bonuses \div n) + (IF i - 1 < total_bonuses % n THEN 1 ELSE 0)]

\* the branch "if not needed"
AllocateNoNeed(target_attributes, preferred_attr) ==
    IF preferred_attr # None /\ preferred_attr \in Attrs
    THEN Put([a \in KeySet(target_attributes) |-> 0], preferred_attr, total_bonuses)
    ELSE EvenSplit(target_attributes)

\* the branch "if total_bonuses_needed > total_bonuses"
AllocateScaled(zeroed, needed) ==
    LET ones == [a \in DOMAIN zeroed |->
                    IF a \in KeySet(needed) THEN 1 ELSE zeroed[a]]
        count == Len(needed)
        scaled == IF count > total_bonuses
                  THEN [a \in DOMAIN ones |->
                           IF a \in KeySet(needed)
                           THEN Max(0, (ones[a] * total_bonuses) \div count)
                           ELSE ones[a]]
                  ELSE ones
        current_total == IF count > total_bonuses THEN SumValues(scaled) ELSE count
        remaining == total_bonuses - current_total
    IN IF remaining > 0 THEN DistributeRemaining(scaled, needed, remaining) ELSE scaled

\* the branch "else" (total_bonuses_needed <= total_bonuses)
AllocateExact(exact, needed, preferred_attr) ==
    LET remaining == total_bonuses - SumValues(exact)
    IN IF remaining > 0
       THEN IF preferred_attr # None /\ preferred_attr \in Attrs
            THEN Put(exact, preferred_attr, Get(exact, preferred_attr) + remaining)
            ELSE DistributeRemaining(exact, needed, remaining)
       ELSE exact

_calculate_optimal_bonuses(base_attributes, target_attributes, preferred_attr) ==
    LET needed == Needed(base_attributes, target_attributes)
        zeroed == LET z == [a \in KeySet(target_attributes) |-> 0]
                  IN IF preferred_attr # None
                        /\ preferred_attr \notin KeySet(target_attributes)
                     THEN Put(z, preferred_attr, 0) ELSE z
        exact == [a \in DOMAIN zeroed |->
                     IF a \in KeySet(needed)
                     THEN BonusesNeeded(ValueOf(needed, a)) ELSE zeroed[a]]
        total_bonuses_needed == SumValues(exact)
    IN IF needed = <<>> THEN AllocateNoNeed(target_attributes, preferred_attr)
       ELSE IF total_bonuses_needed > total_bonuses
            THEN AllocateScaled(zeroed, needed)
            ELSE AllocateExact(exact, needed, preferred_attr)

-----------------------------------------------------------------------------
(* equipment.py: the catalogs and the item                                 *)

\* EQUIPMENT_TAGS: tag -> <<Main attribute, Sub attribute>>, in catalog order
TagNames == <<"Bulwark", "Brawler", "Grenadier", "Paragon", "Tactician", "Gunner">>

EQUIPMENT_TAGS ==
    [t \in {TagNames[i] : i \in 1..Len(TagNames)} |->
        CASE t = "Bulwark"   -> <<"Health", "Class">>
          [] t = "Brawler"   -> <<"Melee", "Health">>
          [] t = "Grenadier" -> <<"Grenade", "Super">>
          [] t = "Paragon"   -> <<"Super", "Melee">>
          [] t = "Tactician" -> <<"Class", "Weapon">>
          [] t = "Gunner"    -> <<"Weapon", "Grenade">>]

EQUIPMENT_TYPES == <<"Helmet", "Arms", "Chest", "Legs", "ClassItem">>

MAX_UPGRADE_LEVEL == 5

MAIN_VALUE == 30

SUB_VALUE == 25

RANDOM_VALUE == 20

LOCK_VALUE == 5

STAT_TYPE_MAIN == "Main"

STAT_TYPE_SUB == "Sub"

STAT_TYPE_RANDOM == "Random"

STAT_TYPE_SUPPLEMENT == "Supplement"

\* Equipment._generate_stat_tags_from_equipment_tag, for attributes that hold
\* 30 on the tag's Main, 25 on its Sub and 20 on random_stat
StatTagsFromTag(tag, random_stat) ==
    [a \in Attrs |->
        IF a = EQUIPMENT_TAGS[tag][1] THEN STAT_TYPE_MAIN
        ELSE IF a = EQUIPMENT_TAGS[tag][2] THEN STAT_TYPE_SUB
        ELSE IF a = random_stat THEN STAT_TYPE_RANDOM
        ELSE STAT_TYPE_SUPPLEMENT]

\* the item add_equipment_simple builds (level 0, supplements 0), with the
\* penalty attribute a stored item may carry when it is loaded
NewEquipment(id, type, tag, random_stat, locked_attr, penalty_attr, set_name) ==
    [id |-> id, type |-> type, tag |-> tag,
     attributes |-> [a \in Attrs |->
                        IF a = EQUIPMENT_TAGS[tag][1] THEN MAIN_VALUE
                        ELSE IF a = EQUIPMENT_TAGS[tag][2] THEN SUB_VALUE
                        ELSE IF a = random_stat THEN RANDOM_VALUE
                        ELSE 0],
     stat_tags |-> StatTagsFromTag(tag, random_stat),
     set_name |-> set_name, level |-> 0,
     locked_attr |-> locked_attr, penalty_attr |-> penalty_attr]

\* Equipment.get_stat_tag: stat_tags.get(attr_name, STAT_TYPE_SUPPLEMENT)
get_stat_tag(equipment, attr_name) ==
    IF attr_name \in DOMAIN equipment.stat_tags
    THEN equipment.stat_tags[attr_name] ELSE STAT_TYPE_SUPPLEMENT

\* a variant that leaves a Supplement attribute at its stored value
get_base_value_NotUpgraded(equipment, attr_name) ==
    CASE get_stat_tag(equipment, attr_name) = STAT_TYPE_MAIN -> MAIN_VALUE
      [] get_stat_tag(equipment, attr_name) = STAT_TYPE_SUB -> SUB_VALUE
      [] get_stat_tag(equipment, attr_name) = STAT_TYPE_RANDOM -> RANDOM_VALUE
      [] OTHER -> 0

\* Equipment.get_max_level_attributes.get_base_value, and the same branches
\* of the loop that fills max_attrs
get_base_value(equipment, attr_name) ==
    CASE get_stat_tag(equipment, attr_name) = STAT_TYPE_MAIN -> MAIN_VALUE
      [] get_stat_tag(equipment, attr_name) = STAT_TYPE_SUB -> SUB_VALUE
      [] get_stat_tag(equipment, attr_name) = STAT_TYPE_RANDOM -> RANDOM_VALUE
      [] OTHER -> MAX_UPGRADE_LEVEL

\* the keys of max_attrs: the catalog attributes and, when both are set, the
\* locked and the penalty attribute, whatever their names
MaxAttrKeys(equipment) ==
    Attrs \cup (IF equipment.locked_attr # None /\ equipment.penalty_attr # None
                THEN {equipment.locked_attr, equipment.penalty_attr} ELSE {})

\* Equipment.get_max_level_attributes: the lock is applied first, then the
\* penalty, so a penalty on the locked attribute itself wins
get_max_level_attributes(equipment) ==
    [a \in MaxAttrKeys(equipment) |->
        IF equipment.locked_attr # None /\ equipment.penalty_attr # None
        THEN IF a = equipment.penalty_attr
             THEN Max(0, get_base_value(equipment, a) - LOCK_VALUE)
             ELSE IF a = equipment.locked_attr
                  THEN get_base_value(equipment, a) + LOCK_VALUE
                  ELSE get_base_value(equipment, a)
        ELSE get_base_value(equipment, a)]

-----------------------------------------------------------------------------
(* Equipment.__post_init__: the validation of a new item.  The attribute   *)
(* values the constructor receives are kept in thousandths, so that the    *)
(* tolerance 0.01 of the comparisons is integral; the keys of attributes   *)
(* and stat_tags are catalog attributes, in catalog order.                 *)

MILLI == 1000

TOLERANCE == 10

EQUIPMENT_BASE_VALUES == <<30, 25, 20>>

Abs(x) == IF x < 0 THEN 0 - x ELSE x

\* a variant of the comparison with the tolerance 10 instead of 0.01
Near_Loose(value, expected) == Abs(value - expected * MILLI) <= TOLERANCE * MILLI

\* not (abs(value - expected) > 0.01)
Near(value, expected) == Abs(value - expected * MILLI) <= TOLERANCE

\* non_zero_attrs: the attributes with a value != 0, in dict order
non_zero_attrs(attributes) ==
    SelectSeq(EQUIPMENT_ATTRIBUTES, LAMBDA a : attributes[a] # 0)

\* a variant that finds no random_attr
RandomAttrForTag_Missing(tag, attributes) == None

\* the random_attr that _generate_stat_tags_from_equipment_tag finds: the
\* first non-zero attribute besides main and sub that holds 20, else the first
\* non-zero one besides main and sub, else None
RandomAttrForTag(tag, attributes) ==
    LET others == SelectSeq(non_zero_attrs(attributes),
                            LAMBDA a : a \notin {EQUIPMENT_TAGS[tag][1], EQUIPMENT_TAGS[tag][2]})
        twenty == SelectSeq(others,
                            LAMBDA a : Abs(attributes[a] - RANDOM_VALUE * MILLI) < TOLERANCE)
    IN IF twenty # <<>> THEN Head(twenty)
       ELSE IF others # <<>> THEN Head(others) ELSE None

_generate_stat_tags_from_equipment_tag(tag, attributes) ==
    StatTagsFromTag(tag, RandomAttrForTag(tag, attributes))

\* sorted(non_zero_attrs.items(), key=value, reverse=True): stable
RECURSIVE SortedByValue(_, _)
SortedByValue(attrs, attributes) ==
    IF attrs = <<>> THEN <<>>
    ELSE LET rest == SortedByValue(Tail(attrs), attributes)
             a == Head(attrs)
         IN SelectSeq(rest, LAMBDA x : attributes[x] > attributes[a]) \o <<a>>
               \o SelectSeq(rest, LAMBDA x : attributes[x] <= attributes[a])

\* _generate_stat_tags: used without a tag when no stat_tags are given
_generate_stat_tags(attributes) ==
    LET sorted_attrs == SortedByValue(non_zero_attrs(attributes), attributes)
    IN IF Len(non_zero_attrs(attributes)) # 3 THEN <<>>
       ELSE [a \in Attrs |->
                IF a = sorted_attrs[1] THEN STAT_TYPE_MAIN
                ELSE IF a = sorted_attrs[2] THEN STAT_TYPE_SUB
                ELSE IF a = sorted_attrs[3] THEN STAT_TYPE_RANDOM
                ELSE STAT_TYPE_SUPPLEMENT]

\* a variant that accepts any number of non-zero attributes
_validate_attributes_AnyCount(attributes) == None

\* _validate_attributes: the ValueError it raises, None for none
_validate_attributes(attributes) ==
    LET values == SortedByValue(non_zero_attrs(attributes), attributes)
    IN IF Len(values) # 3 THEN "not_three_non_zero"
       ELSE IF \E i \in 1..3 : ~Near(attributes[values[i]], EQUIPMENT_BASE_VALUES[i])
            THEN "not_base_values"
            ELSE None

\* the attributes that stat_tags gives the type
WithType(stat_tags, type) ==
    SelectSeq(EQUIPMENT_ATTRIBUTES,
              LAMBDA a : a \in DOMAIN stat_tags /\ stat_tags[a] = type)

\* _validate_stat_tags: the ValueError it raises, None for none
_validate_stat_tags(tag, attributes, stat_tags, level) ==
    LET main_stats == WithType(stat_tags, STAT_TYPE_MAIN)
        sub_stats == WithType(stat_tags, STAT_TYPE_SUB)
        random_stats == WithType(stat_tags, STAT_TYPE_RANDOM)
        supplement_stats == WithType(stat_tags, STAT_TYPE_SUPPLEMENT)
    IN IF \E a \in Attrs : a \notin DOMAIN stat_tags THEN "missing_stat_tag"
       ELSE IF Len(main_stats) # 1 THEN "not_one_main"
       ELSE IF Len(sub_stats) # 1 THEN "not_one_sub"
       ELSE IF Len(random_stats) # 1 THEN "not_one_random"
       ELSE IF Len(supplement_stats) # 3 THEN "not_three_supplement"
       ELSE IF ~Near(attributes[main_stats[1]], MAIN_VALUE) THEN "main_value"
       ELSE IF ~Near(attributes[sub_stats[1]], SUB_VALUE) THEN "sub_value"
       ELSE IF ~Near(attributes[random_stats[1]], RANDOM_VALUE) THEN "random_value"
       ELSE IF tag # None /\ tag \notin DOMAIN EQUIPMENT_TAGS THEN "tag_not_defined"
       ELSE IF tag # None /\ main_stats[1] # EQUIPMENT_TAGS[tag][1] THEN "tag_main"
       ELSE IF tag # None /\ sub_stats[1] # EQUIPMENT_TAGS[tag][2] THEN "tag_sub"
       ELSE IF \E i \in 1..Len(supplement_stats) :
                  \/ attributes[supplement_stats[i]] < 0
                  \/ attributes[supplement_stats[i]] > level * MILLI
            THEN "supplement_range"
            ELSE None

\* __post_init__ on the constructor's arguments: the item and the error raised
PostInit(input) ==
    LET unknown == input.tag # None /\ input.tag \notin DOMAIN EQUIPMENT_TAGS
        stat_tags ==
            IF input.tag # None
            THEN IF unknown THEN <<>>
                 ELSE _generate_stat_tags_from_equipment_tag(input.tag, input.attributes)
            ELSE IF input.stat_tags = <<>> THEN _generate_stat_tags(input.attributes)
                 ELSE input.stat_tags
        attr_error == _validate_attributes(input.attributes)
        error == IF unknown THEN "unknown_tag"
                 ELSE IF attr_error # None THEN attr_error
                 ELSE _validate_stat_tags(input.tag, input.attributes, stat_tags,
                                          input.level)
    IN [error |-> error,
        item |-> IF error # None THEN None
                 ELSE [id |-> "new", type |-> input.type, tag |-> input.tag,
                       attributes |-> input.attributes, stat_tags |-> stat_tags,
                       set_name |-> None, level |-> input.level,
                       locked_attr |-> input.locked_attr,
                       penalty_attr |-> input.penalty_attr]]

-----------------------------------------------------------------------------
(* inventory.py: a class inventory is the dict id -> item, kept here as the *)
(* sequence of its items in insertion order.                                *)

InventoryIds(inv) == {inv[i].id : i \in 1..Len(inv)}

\* Inventory.get_equipment, for an id the inventory holds
get_equipment(inv, equipment_id) ==
    inv[CHOOSE i \in 1..Len(inv) : inv[i].id = equipment_id]

-----------------------------------------------------------------------------
(* EquipmentCalculator.calculate_combination                               *)

\* exotic_equipment=None: no exotic item is given
NoExotic == [type |-> None, attributes |-> [a \in Attrs |-> 0]]

\* the ids of the list that the inventory holds, in list order
FoundIds(inv, equipment_ids) ==
    SelectSeq(equipment_ids, LAMBDA id : id \in InventoryIds(inv))

\* the ids of the list that the inventory does not hold, in list order; the
\* one warning of the result joins them, and is kept here as their list
missing_equipments(inv, equipment_ids) ==
    SelectSeq(equipment_ids, LAMBDA id : id \notin InventoryIds(inv))

\* a variant that aggregates the stored base attributes of an item
max_level_attrs_Stored(equipment) == equipment.attributes

\* max_level_attrs = equipment.get_max_level_attributes()
max_level_attrs(equipment) == get_max_level_attributes(equipment)

RECURSIVE SumMaxLevel(_, _, _)
SumMaxLevel(inv, ids, attr) ==
    IF ids = <<>> THEN 0
    ELSE Get(max_level_attrs(get_equipment(inv, Head(ids))), attr)
            + SumMaxLevel(inv, Tail(ids), attr)

\* set_counts: the number of found items per set name
SetCount(inv, ids, set_name) ==
    Cardinality({i \in 1..Len(ids) : get_equipment(inv, ids[i]).set_name = set_name})

SetNamesOf(inv, ids) ==
    {get_equipment(inv, ids[i]).set_name : i \in 1..Len(ids)} \ {None}

\* a variant that takes the smallest applicable tier
AppliedTier_Smallest(bonuses, set_name, count) ==
    IF set_name \notin DOMAIN bonuses THEN 0
    ELSE LET applicable == {n \in DOMAIN bonuses[set_name] : n <= count}
         IN IF applicable = {} THEN 0
            ELSE CHOOSE n \in applicable : \A m \in applicable : n <= m

\* the tier applied for a set: the largest piece_count <= count, 0 for none
AppliedTier(bonuses, set_name, count) ==
    IF set_name \notin DOMAIN bonuses THEN 0
    ELSE LET applicable == {n \in DOMAIN bonuses[set_name] : n <= count}
         IN IF applicable = {} THEN 0
            ELSE CHOOSE n \in applicable : \A m \in applicable : m <= n

RECURSIVE SumSetBonus(_, _, _, _, _)
SumSetBonus(bonuses, inv, ids, names, attr) ==
    IF names = {} THEN 0
    ELSE LET s == CHOOSE x \in names : TRUE
             tier == AppliedTier(bonuses, s, SetCount(inv, ids, s))
         IN (IF tier = 0 THEN 0 ELSE Get(bonuses[s][tier], attr))
               + SumSetBonus(bonuses, inv, ids, names \ {s}, attr)

\* set_bonuses_applied: the <<set name, piece_count>> pairs of its keys
set_bonuses_applied(bonuses, inv, ids) ==
    {<<s, AppliedTier(bonuses, s, SetCount(inv, ids, s))>> :
        s \in {n \in SetNamesOf(inv, ids) :
                 AppliedTier(bonuses, n, SetCount(inv, ids, n)) # 0}}

\* a variant that never counts the exotic item
exotic_count_Ignored(exotic_equipment) == 0

\* if exotic_equipment: equipment_count += 1
exotic_count(exotic_equipment) == IF exotic_equipment # NoExotic THEN 1 ELSE 0

\* the keys total_attributes ends with: whatever an item's projection, the
\* exotic item or an applied bonus names, and the 6 catalog attributes
TotalKeys(bonuses, inv, found, exotic_equipment) ==
    Attrs
      \cup UNION {DOMAIN max_level_attrs(get_equipment(inv, found[i])) :
                     i \in 1..Len(found)}
      \cup (IF exotic_equipment # NoExotic
            THEN DOMAIN exotic_equipment.attributes ELSE {})
      \cup UNION {DOMAIN bonuses[p[1]][p[2]] :
                     p \in set_bonuses_applied(bonuses, inv, found)}

calculate_combination(bonuses, inv, equipment_ids, exotic_equipment) ==
    LET found == FoundIds(inv, equipment_ids)
        names == SetNamesOf(inv, found)
        total_attributes ==
            [a \in TotalKeys(bonuses, inv, found, exotic_equipment) |->
                SumMaxLevel(inv, found, a)
                  + (IF exotic_equipment # NoExotic
                     THEN Get(exotic_equipment.attributes, a) ELSE 0)
                  + SumSetBonus(bonuses, inv, found, names, a)]
    IN [equipment_ids |-> equipment_ids,
        equipment_count |-> Len(equipment_ids)
                               - Len(missing_equipments(inv, equipment_ids))
                               + exotic_count(exotic_equipment),
        total_attributes |-> total_attributes,
        set_bonuses |-> set_bonuses_applied(bonuses, inv, found),
        set_counts |-> [s \in names |-> SetCount(inv, found, s)],
        set_tiers |-> [s \in names |->
                          AppliedTier(bonuses, s, SetCount(inv, found, s))],
        total_sum |-> SumValues(total_attributes),
        warnings |-> IF missing_equipments(inv, equipment_ids) = <<>> THEN <<>>
                     ELSE <<missing_equipments(inv, equipment_ids)>>]

\* the class inventory after calculate_combination: the method reads items
\* through get_equipment and writes to its own locals only
InventoryAfterCalculate(inv) == inv

-----------------------------------------------------------------------------
(* EquipmentCalculator.find_combination_by_target: the pieces of one call.  *)
(* A call's arguments are a record args = [target_attributes,              *)
(* max_equipments, exotic_equipment, preferred_attr].                       *)

\* best_score = float('inf')
Inf == -1

\* a variant of the filter that keeps every item
relevant_equipments_AnyItem(inv, target_attributes) ==
    [i \in 1..Len(inv) |-> inv[i].id]

\* relevant_equipments: the ids of the items with a positive max-level value
\* for some target attribute, in inventory order
relevant_equipments(inv, target_attributes) ==
    LET ids == [i \in 1..Len(inv) |-> inv[i].id]
    IN SelectSeq(ids, LAMBDA id :
           \E a \in KeySet(target_attributes) :
               get_max_level_attributes(get_equipment(inv, id))[a] > 0)

\* itertools.combinations(s, k), as the sequence it yields
RECURSIVE Combinations(_, _)
Combinations(s, k) ==
    IF k = 0 THEN << <<>> >>
    ELSE IF Len(s) < k THEN <<>>
    ELSE LET withHead == Combinations(Tail(s), k - 1)
         IN [i \in 1..Len(withHead) |-> <<Head(s)>> \o withHead[i]]
               \o Combinations(Tail(s), k)

\* range(1, min(max_equipments + 1, len(relevant_equipments) + 1)) is exhausted
NoMoreSizes(num, max_equipments, rel) ==
    num >= Min(max_equipments + 1, Len(rel) + 1)

\* a variant that takes every locked item, with or without a stored penalty
locked_equipments_AnyLocked(inv, combo) ==
    SelectSeq(combo, LAMBDA id : get_equipment(inv, id).locked_attr # None)

\* locked_equipments = [eq for eq in combo if eq.locked_attr and not eq.penalty_attr]
locked_equipments(inv, combo) ==
    SelectSeq(combo, LAMBDA id :
        /\ get_equipment(inv, id).locked_attr # None
        /\ get_equipment(inv, id).penalty_attr = None)

\* options = [attr for attr in EQUIPMENT_ATTRIBUTES if attr != eq.locked_attr]
PenaltyOptions(equipment) ==
    SelectSeq(EQUIPMENT_ATTRIBUTES, LAMBDA a : a # equipment.locked_attr)

\* _generate_penalty_combinations: itertools.product over the items' options,
\* the last item's option varying fastest; each config maps id -> attribute
RECURSIVE _generate_penalty_combinations(_, _)
_generate_penalty_combinations(inv, lk) ==
    IF lk = <<>> THEN << <<>> >>
    ELSE LET options == PenaltyOptions(get_equipment(inv, Head(lk)))
             rest == _generate_penalty_combinations(inv, Tail(lk))
         IN [i \in 1..(Len(options) * Len(rest)) |->
                Put(rest[((i - 1) % Len(rest)) + 1], Head(lk),
                    options[((i - 1) \div Len(rest)) + 1])]

\* original_penalties[eq.id] = eq.penalty_attr, for the items of the config
OriginalPenalties(inv, lk, penalty_config) ==
    [id \in {lk[i] : i \in 1..Len(lk)} \cap DOMAIN penalty_config |->
        get_equipment(inv, id).penalty_attr]

\* eq.penalty_attr = penalty_config[eq.id], for the items of the config
SetPenaltyAttrs(inv, penalties) ==
    [i \in 1..Len(inv) |->
        IF inv[i].id \in DOMAIN penalties
        THEN [inv[i] EXCEPT !.penalty_attr = penalties[inv[i].id]]
        ELSE inv[i]]

\* a variant that leaves the trial penalties in the items
RestorePenalties_Skipped(inv, original) == inv

\* the restore loop: eq.penalty_attr = original_penalties[eq.id]
RestorePenalties(inv, original) == SetPenaltyAttrs(inv, original)

\* a variant that counts every allocated unit twice
ApplyBonuses_Twice(total_attributes, bonus_allocation) ==
    [a \in (DOMAIN total_attributes) \cup (DOMAIN bonus_allocation) |->
        Get(total_attributes, a) + 2 * Get(bonus_allocation, a) * BONUS_VALUE]

\* final_attributes: the totals plus 10 per allocated unit
ApplyBonuses(total_attributes, bonus_allocation) ==
    [a \in (DOMAIN total_attributes) \cup (DOMAIN bonus_allocation) |->
        Get(total_attributes, a) + Get(bonus_allocation, a) * BONUS_VALUE]

\* all_met: no target attribute is under its target
AllMet(final_attributes, target_attributes) ==
    \A i \in 1..Len(target_attributes) :
        Get(final_attributes, target_attributes[i][1]) >= target_attributes[i][2]

\* score, times 10: (target - actual) ** 2 when under the target, else
\* (actual - target) * 0.1
RECURSIVE Score10(_, _)
Score10(final_attributes, target_attributes) ==
    IF target_attributes = <<>> THEN 0
    ELSE LET actual_value == Get(final_attributes, Head(target_attributes)[1])
             target_value == Head(target_attributes)[2]
         IN (IF actual_value < target_value
             THEN 10 * (target_value - actual_value) * (target_value - actual_value)
             ELSE actual_value - target_value)
               + Score10(final_attributes, Tail(target_attributes))

\* the scoring of one candidate, with the items as they are in the inventory
Evaluate(bonuses, inv, combo, call) ==
    LET result == calculate_combination(bonuses, inv, combo, call.exotic_equipment)
        bonus_allocation ==
            _calculate_optimal_bonuses(result.total_attributes, call.target_attributes,
                                       call.preferred_attr)
        final_attributes == ApplyBonuses(result.total_attributes, bonus_allocation)
    IN [result |-> result,
        bonus_allocation |-> bonus_allocation,
        final_attributes |-> final_attributes,
        score |-> Score10(final_attributes, call.target_attributes),
        all_met |-> AllMet(final_attributes, call.target_attributes),
        preferred_value |-> IF call.preferred_attr # None
                            THEN Get(final_attributes, call.preferred_attr) ELSE 0]

\* a variant that also takes an equal score
LessThanBest_OrEqual(score, best_score) == best_score = Inf \/ score <= best_score

\* score < best_score, where best_score may be float('inf')
LessThanBest(score, best_score) == best_score = Inf \/ score < best_score

\* a variant without the branch "elif best_score > 0"
IsBetter_NoUpgrade(ev, cur, preferred_attr) ==
    IF ev.all_met
    THEN IF cur.score = Inf THEN TRUE
         ELSE IF cur.score = 0
              THEN IF preferred_attr # None
                   THEN ev.preferred_value > cur.preferred_value
                   ELSE ev.score < cur.score
              ELSE FALSE
    ELSE cur.score = Inf \/ ev.score < cur.score

\* is_better
IsBetter(ev, cur, preferred_attr) ==
    IF ev.all_met
    THEN IF cur.score = Inf THEN TRUE
         ELSE IF cur.score > 0 THEN TRUE
         ELSE IF cur.score = 0
              THEN IF preferred_attr # None
                   THEN ev.preferred_value > cur.preferred_value
                   ELSE LessThanBest(ev.score, cur.score)
              ELSE FALSE
    ELSE LessThanBest(ev.score, cur.score)

\* the locals best_* before the loops; index is the position of the retained
\* candidate among the evaluated ones (0: none), kept for the properties
InitialBest ==
    [score |-> Inf, combination |-> <<>>, result |-> <<>>, penalty_configs |-> <<>>,
     bonus_allocation |-> <<>>, preferred_value |-> -1, index |-> 0]

\* the assignments under "if is_better"
NewBest(ev, combo, penalty_config, index) ==
    [score |-> IF ev.all_met THEN 0 ELSE ev.score,
     combination |-> combo, result |-> ev.result,
     penalty_configs |-> penalty_config,
     bonus_allocation |-> ev.bonus_allocation,
     preferred_value |-> ev.preferred_value, index |-> index]

\* "if all_met and score == 0", under "if is_better"
ExactReturn(ev, cur, preferred_attr) ==
    IsBetter(ev, cur, preferred_attr) /\ ev.all_met /\ ev.score = 0

\* the dicts the function returns; kind stands for the message, index is the
\* position of the returned candidate among the evaluated ones (0: none); an
\* entry the dict does not carry is kept as <<>>
NotFoundEarly(kind) ==
    [kind |-> kind, found |-> FALSE, combination |-> <<>>, total_attributes |-> <<>>,
     penalty_configs |-> <<>>, bonus_allocation |-> <<>>,
     missing_attributes |-> <<>>, required_equipments |-> <<>>, index |-> 0]

\* the return under "if all_met and score == 0"
ExactResult(ev, combo, penalty_config, index) ==
    [kind |-> "exact", found |-> TRUE, combination |-> combo,
     total_attributes |-> ev.final_attributes,
     penalty_configs |-> penalty_config, bonus_allocation |-> ev.bonus_allocation,
     missing_attributes |-> <<>>, required_equipments |-> <<>>, index |-> index]

-----------------------------------------------------------------------------
(* EquipmentCalculator._analyze_required_equipments: hypothetical items    *)
(* that would close the gaps. A recommended item is the record [type, tag, *)
(* random_stat, locked_attr, attributes, contributions, score].            *)

RECOMMEND_LIMIT == 3

LOCKED_MAIN_VALUE == 35

\* needed_attrs: target - current where positive, in the order of the targets
RECURSIVE needed_attrs(_, _)
needed_attrs(target_attributes, current_attrs) ==
    IF target_attributes = <<>> THEN <<>>
    ELSE LET attr == Head(target_attributes)[1]
             needed == Head(target_attributes)[2] - Get(current_attrs, attr)
         IN (IF needed > 0 THEN << <<attr, needed>> >> ELSE <<>>)
               \o needed_attrs(Tail(target_attributes), current_attrs)

\* equipment_types without the exotic item's type
equipment_types(exotic_type) ==
    SelectSeq(EQUIPMENT_TYPES, LAMBDA t : t # exotic_type)

\* the first type of the list not in existing_types, None when all are used
FirstUnusedType(types, existing_types) ==
    IF \E i \in 1..Len(types) : types[i] \notin existing_types
    THEN types[CHOOSE i \in 1..Len(types) :
                  /\ types[i] \notin existing_types
                  /\ \A j \in 1..(i - 1) : types[j] \in existing_types]
    ELSE None

\* available_random[0]: the first catalog attribute that is neither main nor sub
FirstRandomStat(main_attr, sub_attr) ==
    Head(SelectSeq(EQUIPMENT_ATTRIBUTES, LAMBDA a : a \notin {main_attr, sub_attr}))

\* max_attrs of a hypothetical item with the given main value
HypotheticalAttrs(main_attr, sub_attr, random_stat, main_value) ==
    [a \in Attrs |->
        IF a = main_attr THEN main_value
        ELSE IF a = sub_attr THEN SUB_VALUE
        ELSE IF a = random_stat THEN RANDOM_VALUE
        ELSE MAX_UPGRADE_LEVEL]

\* contributions: min(attr_value, needed_val) for every needed attribute
Contributions(attributes, needed) ==
    [a \in KeySet(needed) |-> Min(Get(attributes, a), ValueOf(needed, a))]

Recommendation(eq_type, tag, random_stat, locked_attr, attributes, needed) ==
    [type |-> eq_type, tag |-> tag, random_stat |-> random_stat,
     locked_attr |-> locked_attr, attributes |-> attributes,
     contributions |-> Contributions(attributes, needed),
     score |-> SumValues(Contributions(attributes, needed))]

\* the loop over EQUIPMENT_TAGS for one needed attribute, from tag i on;
\* best_config is None or <<tag, random_stat, locked_attr, max_attrs>>
RECURSIVE BestConfig(_, _, _, _, _)
BestConfig(attr, eq_type, i, best_score, best_config) ==
    IF i > Len(TagNames) THEN best_config
    ELSE LET tag == TagNames[i]
             main_attr == EQUIPMENT_TAGS[tag][1]
             sub_attr == EQUIPMENT_TAGS[tag][2]
             contribution == IF main_attr = attr THEN MAIN_VALUE + LOCK_VALUE
                             ELSE IF sub_attr = attr THEN SUB_VALUE ELSE 0
             random_stat == FirstRandomStat(main_attr, sub_attr)
             max_attrs == HypotheticalAttrs(main_attr, sub_attr, random_stat,
                              IF main_attr = attr THEN LOCKED_MAIN_VALUE ELSE MAIN_VALUE)
             total_contribution == Get(max_attrs, attr)
         IN IF /\ contribution > best_score
               /\ eq_type # None
               /\ total_contribution > 0
               /\ total_contribution >= best_score
            THEN BestConfig(attr, eq_type, i + 1, total_contribution,
                            <<tag, random_stat,
                              IF main_attr = attr THEN attr ELSE None, max_attrs>>)
            ELSE BestConfig(attr, eq_type, i + 1, best_score, best_config)

\* the first loop: one recommended item per needed attribute, until 3
RECURSIVE RecommendPerAttr(_, _, _, _)
RecommendPerAttr(needed, k, types, recommended) ==
    IF k > Len(needed) \/ Len(recommended) >= RECOMMEND_LIMIT THEN recommended
    ELSE LET existing_types == {recommended[i].type : i \in 1..Len(recommended)}
             eq_type == FirstUnusedType(types, existing_types)
             best_config == BestConfig(needed[k][1], eq_type, 1, 0, None)
         IN RecommendPerAttr(needed, k + 1, types,
                IF best_config = None THEN recommended
                ELSE Append(recommended,
                            Recommendation(eq_type, best_config[1], best_config[2],
                                           best_config[3], best_config[4], needed)))

\* remaining_needs: what the recommended items do not provide yet
RECURSIVE Provided(_, _)
Provided(recommended, attr) ==
    IF recommended = <<>> THEN 0
    ELSE Get(Head(recommended).contributions, attr) + Provided(Tail(recommended), attr)

remaining_needs(needed, recommended) ==
    SelectSeq([i \in 1..Len(needed) |->
                  <<needed[i][1], needed[i][2] - Provided(recommended, needed[i][1])>>],
              LAMBDA e : e[2] > 0)

\* max(remaining_needs.items(), key=lambda x: x[1])[0]: the first largest
LargestNeed(remaining) ==
    remaining[CHOOSE i \in 1..Len(remaining) :
                 /\ \A j \in 1..Len(remaining) : remaining[j][2] <= remaining[i][2]
                 /\ \A j \in 1..(i - 1) : remaining[j][2] < remaining[i][2]][1]

\* the first tag whose main or sub attribute is best_attr, else the first tag
TagFor(best_attr) ==
    IF \E i \in 1..Len(TagNames) : best_attr \in {EQUIPMENT_TAGS[TagNames[i]][1],
                                                   EQUIPMENT_TAGS[TagNames[i]][2]}
    THEN TagNames[CHOOSE i \in 1..Len(TagNames) :
             /\ best_attr \in {EQUIPMENT_TAGS[TagNames[i]][1], EQUIPMENT_TAGS[TagNames[i]][2]}
             /\ \A j \in 1..(i - 1) :
                   best_attr \notin {EQUIPMENT_TAGS[TagNames[j]][1],
                                     EQUIPMENT_TAGS[TagNames[j]][2]}]
    ELSE TagNames[1]

\* the while loop: generic items for the largest remaining need
RECURSIVE RecommendGeneric(_, _, _)
RecommendGeneric(needed, types, recommended) ==
    LET remaining == remaining_needs(needed, recommended)
        existing_types == {recommended[i].type : i \in 1..Len(recommended)}
        eq_type == FirstUnusedType(types, existing_types)
        best_tag == TagFor(LargestNeed(remaining))
        main_attr == EQUIPMENT_TAGS[best_tag][1]
        sub_attr == EQUIPMENT_TAGS[best_tag][2]
        random_stat == FirstRandomStat(main_attr, sub_attr)
    IN IF \/ Len(recommended) >= RECOMMEND_LIMIT
          \/ Len(recommended) >= Len(types)
          \/ remaining = <<>>
          \/ eq_type = None
       THEN recommended
       ELSE RecommendGeneric(needed, types,
                Append(recommended,
                       Recommendation(eq_type, best_tag, random_stat, None,
                           HypotheticalAttrs(main_attr, sub_attr, random_stat, MAIN_VALUE),
                           needed)))

\* a variant of the sort that keeps the order of generation
SortByScore_Unsorted(recommended) == recommended

\* recommended.sort(key=score, reverse=True): stable, largest score first
RECURSIVE SortByScore(_)
SortByScore(recommended) ==
    IF recommended = <<>> THEN <<>>
    ELSE LET rest == SortByScore(Tail(recommended))
             r == Head(recommended)
             before == SelectSeq(rest, LAMBDA x : x.score > r.score)
             after == SelectSeq(rest, LAMBDA x : x.score <= r.score)
         IN before \o <<r>> \o after

\* current_attrs when current_result is None
NoCurrentResult == [a \in Attrs |-> 0]

_analyze_required_equipments(target_attributes, current_attrs, exotic_type) ==
    LET needed == needed_attrs(target_attributes, current_attrs)
        types == equipment_types(exotic_type)
        sorted == SortByScore(RecommendGeneric(needed, types,
                                  RecommendPerAttr(needed, 1, types, <<>>)))
    IN IF needed = <<>> THEN <<>>
       ELSE SubSeq(sorted, 1, Min(RECOMMEND_LIMIT, Len(sorted)))

\* the code after the loops
PostLoop(cur, call) ==
    IF cur.combination # <<>>
    THEN LET final_attributes ==
                 ApplyBonuses(cur.result.total_attributes, cur.bonus_allocation)
             under == {a \in KeySet(call.target_attributes) :
                          Get(final_attributes, a) < ValueOf(call.target_attributes, a)}
             missing_attrs ==
                 [a \in under |->
                     ValueOf(call.target_attributes, a) - Get(final_attributes, a)]
         IN [kind |-> IF under = {} THEN "overshoot" ELSE "not_met",
             found |-> (under = {}), combination |-> cur.combination,
             total_attributes |-> final_attributes,
             penalty_configs |-> cur.penalty_configs,
             bonus_allocation |-> cur.bonus_allocation,
             missing_attributes |-> missing_attrs,
             required_equipments |->
                 IF under = {} THEN <<>>
                 ELSE _analyze_required_equipments(call.target_attributes,
                          final_attributes, call.exotic_equipment.type),
             index |-> cur.index]
    ELSE [NotFoundEarly("nothing") EXCEPT
             !.required_equipments =
                 _analyze_required_equipments(call.target_attributes, NoCurrentResult,
                                              call.exotic_equipment.type)]

\* the position after the current combo in the two nested for loops
NextPosition(num, ci, rel) ==
    IF ci < Len(Combinations(rel, num)) THEN <<num, ci + 1>> ELSE <<num + 1, 1>>

-----------------------------------------------------------------------------
(* find_combination_by_target run from start to end on an inventory that   *)
(* nothing else touches: the loops, as a recursion over the positions.     *)

RECURSIVE SearchFrom(_, _, _, _, _, _, _, _)
RECURSIVE TrialsFrom(_, _, _, _, _, _, _, _, _, _)

\* the loops from the combo at <<num, ci>> on, with the locals cur and count
\* candidates scored so far
SearchFrom(bonuses, inv, call, rel, num, ci, cur, count) ==
    IF NoMoreSizes(num, call.max_equipments, rel) THEN PostLoop(cur, call)
    ELSE LET combo == Combinations(rel, num)[ci]
             lk == locked_equipments(inv, combo)
             next == NextPosition(num, ci, rel)
         IN IF lk # <<>>
            THEN TrialsFrom(bonuses, inv, call, rel, num, ci, lk, 1, cur, count)
            ELSE LET ev == Evaluate(bonuses, inv, combo, call)
                     better == IsBetter(ev, cur, call.preferred_attr)
                 IN IF ExactReturn(ev, cur, call.preferred_attr)
                    THEN ExactResult(ev, combo, <<>>, count + 1)
                    ELSE SearchFrom(bonuses, inv, call, rel, next[1], next[2],
                                    IF better THEN NewBest(ev, combo, <<>>, count + 1)
                                    ELSE cur,
                                    count + 1)

\* the loop over penalty_combinations from the config at cfg on
TrialsFrom(bonuses, inv, call, rel, num, ci, lk, cfg, cur, count) ==
    LET combo == Combinations(rel, num)[ci]
        configs == _generate_penalty_combinations(inv, lk)
        next == NextPosition(num, ci, rel)
    IN IF cfg > Len(configs)
       THEN SearchFrom(bonuses, inv, call, rel, next[1], next[2], cur, count)
       ELSE LET ev == Evaluate(bonuses, SetPenaltyAttrs(inv, configs[cfg]), combo, call)
                better == IsBetter(ev, cur, call.preferred_attr)
            IN IF ExactReturn(ev, cur, call.preferred_attr)
               THEN ExactResult(ev, combo, configs[cfg], count + 1)
               ELSE TrialsFrom(bonuses, inv, call, rel, num, ci, lk, cfg + 1,
                               IF better THEN NewBest(ev, combo, configs[cfg], count + 1)
                               ELSE cur,
                               count + 1)

\* the dict a call returns when it runs alone
FindAlone(bonuses, inv, call) ==
    IF Len(inv) = 0 /\ call.exotic_equipment = NoExotic
    THEN NotFoundEarly("empty_inventory")
    ELSE LET rel == relevant_equipments(inv, call.target_attributes)
         IN IF Len(rel) = 0 THEN NotFoundEarly("no_relevant")
            ELSE SearchFrom(bonuses, inv, call, rel, 1, 1, InitialBest, 0)

-----------------------------------------------------------------------------
(* find_combination_by_target as a process: one action per step of a call. *)

Procs == DOMAIN pc

CurrentCombo(p) == Combinations(relevant[p], num_equipments[p])[combo_index[p]]

CurrentConfigs(p) == _generate_penalty_combinations(inventory, locked[p])

\* lines 265-296: the two early returns, the pre-filter and the locals
Begin(p) ==
    /\ pc[p] = "start"
    /\ LET rel == relevant_equipments(inventory, args[p].target_attributes)
       IN IF Len(inventory) = 0 /\ args[p].exotic_equipment = NoExotic
          THEN /\ returned' = [returned EXCEPT ![p] = NotFoundEarly("empty_inventory")]
               /\ pc' = [pc EXCEPT ![p] = "done"]
               /\ UNCHANGED relevant
          ELSE IF Len(rel) = 0
          THEN /\ returned' = [returned EXCEPT ![p] = NotFoundEarly("no_relevant")]
               /\ pc' = [pc EXCEPT ![p] = "done"]
               /\ UNCHANGED relevant
          ELSE /\ relevant' = [relevant EXCEPT ![p] = rel]
               /\ pc' = [pc EXCEPT ![p] = "loop"]
               /\ UNCHANGED returned
    /\ UNCHANGED <<bvars, xvars, inventory, inventory0, set_bonuses, args, num_equipments,
                   combo_index, locked, config_index, original_penalties, best,
                   evaluated, pending>>

\* lines 298-304: the next combo and its locked_equipments
SelectCombo(p) ==
    /\ pc[p] = "loop"
    /\ ~NoMoreSizes(num_equipments[p], args[p].max_equipments, relevant[p])
    /\ LET lk == locked_equipments(inventory, CurrentCombo(p))
       IN /\ locked' = [locked EXCEPT ![p] = lk]
          /\ config_index' = [config_index EXCEPT ![p] = 1]
          /\ pc' = [pc EXCEPT ![p] = IF lk # <<>> THEN "set" ELSE "plain"]
    /\ UNCHANGED <<bvars, xvars, inventory, inventory0, set_bonuses, args, relevant,
                   num_equipments, combo_index, original_penalties, best, evaluated,
                   pending, returned>>

\* lines 308-316: the trial penalties are written into the shared items
SetPenalties(p) ==
    /\ pc[p] = "set"
    /\ LET penalty_config == CurrentConfigs(p)[config_index[p]]
       IN /\ original_penalties' =
                 [original_penalties EXCEPT
                     ![p] = OriginalPenalties(inventory, locked[p], penalty_config)]
          /\ inventory' = SetPenaltyAttrs(inventory, penalty_config)
    /\ pc' = [pc EXCEPT ![p] = "try"]
    /\ UNCHANGED <<bvars, xvars, inventory0, set_bonuses, args, relevant, num_equipments,
                   combo_index, locked, config_index, best, evaluated, pending,
                   returned>>

\* what one scored candidate leaves in the history
Entry(ev, combo, penalty_config) ==
    [combo |-> combo, penalty_config |-> penalty_config,
     final_attributes |-> ev.final_attributes]

\* lines 318-399: the try block of a trial
ScoreTrial(p) ==
    /\ pc[p] = "try"
    /\ LET combo == CurrentCombo(p)
           penalty_config == CurrentConfigs(p)[config_index[p]]
           ev == Evaluate(set_bonuses, inventory, combo, args[p])
           index == Len(evaluated[p]) + 1
           better == IsBetter(ev, best[p], args[p].preferred_attr)
           exact == ExactReturn(ev, best[p], args[p].preferred_attr)
       IN /\ evaluated' = [evaluated EXCEPT
                              ![p] = Append(@, Entry(ev, combo, penalty_config))]
          /\ best' = [best EXCEPT
                         ![p] = IF better THEN NewBest(ev, combo, penalty_config, index)
                                ELSE @]
          /\ inventory' = IF exact THEN RestorePenalties(inventory, original_penalties[p])
                          ELSE inventory
          /\ pending' = [pending EXCEPT ![p] = IF exact THEN "return" ELSE "none"]
          /\ returned' = [returned EXCEPT
                             ![p] = IF exact
                                    THEN ExactResult(ev, combo, penalty_config, index)
                                    ELSE @]
    /\ pc' = [pc EXCEPT ![p] = "finally"]
    /\ UNCHANGED <<bvars, xvars, inventory0, set_bonuses, args, relevant, num_equipments,
                   combo_index, locked, config_index, original_penalties>>

\* an exception raised while a candidate is scored
Raise(p) ==
    /\ pc[p] \in {"try", "plain"}
    /\ IF pc[p] = "try"
       THEN /\ pending' = [pending EXCEPT ![p] = "raise"]
            /\ pc' = [pc EXCEPT ![p] = "finally"]
       ELSE /\ pc' = [pc EXCEPT ![p] = "raised"]
            /\ UNCHANGED pending
    /\ UNCHANGED <<bvars, xvars, inventory, inventory0, set_bonuses, args, relevant,
                   num_equipments, combo_index, locked, config_index,
                   original_penalties, best, evaluated, returned>>

\* lines 400-405: the finally block, then the return, the raise or the next
\* penalty_config / combo
Finally(p) ==
    /\ pc[p] = "finally"
    /\ inventory' = RestorePenalties(inventory, original_penalties[p])
    /\ LET next == NextPosition(num_equipments[p], combo_index[p], relevant[p])
           more == config_index[p] < Len(CurrentConfigs(p))
       IN IF pending[p] = "return"
          THEN /\ pc' = [pc EXCEPT ![p] = "done"]
               /\ UNCHANGED <<config_index, num_equipments, combo_index>>
          ELSE IF pending[p] = "raise"
          THEN /\ pc' = [pc EXCEPT ![p] = "raised"]
               /\ UNCHANGED <<config_index, num_equipments, combo_index>>
          ELSE IF more
          THEN /\ pc' = [pc EXCEPT ![p] = "set"]
               /\ config_index' = [config_index EXCEPT ![p] = @ + 1]
               /\ UNCHANGED <<num_equipments, combo_index>>
          ELSE /\ pc' = [pc EXCEPT ![p] = "loop"]
               /\ num_equipments' = [num_equipments EXCEPT ![p] = next[1]]
               /\ combo_index' = [combo_index EXCEPT ![p] = next[2]]
               /\ UNCHANGED config_index
    /\ UNCHANGED <<bvars, xvars, inventory0, set_bonuses, args, relevant, locked,
                   original_penalties, best, evaluated, pending, returned>>

\* lines 406-479: a combo without an item that needs a penalty
ScorePlain(p) ==
    /\ pc[p] = "plain"
    /\ LET combo == CurrentCombo(p)
           ev == Evaluate(set_bonuses, inventory, combo, args[p])
           index == Len(evaluated[p]) + 1
           better == IsBetter(ev, best[p], args[p].preferred_attr)
           exact == ExactReturn(ev, best[p], args[p].preferred_attr)
           next == NextPosition(num_equipments[p], combo_index[p], relevant[p])
       IN /\ evaluated' = [evaluated EXCEPT ![p] = Append(@, Entry(ev, combo, <<>>))]
          /\ best' = [best EXCEPT
                         ![p] = IF better THEN NewBest(ev, combo, <<>>, index) ELSE @]
          /\ IF exact
             THEN /\ returned' = [returned EXCEPT
                                     ![p] = ExactResult(ev, combo, <<>>, index)]
                  /\ pc' = [pc EXCEPT ![p] = "done"]
                  /\ UNCHANGED <<num_equipments, combo_index>>
             ELSE /\ pc' = [pc EXCEPT ![p] = "loop"]
                  /\ num_equipments' = [num_equipments EXCEPT ![p] = next[1]]
                  /\ combo_index' = [combo_index EXCEPT ![p] = next[2]]
                  /\ UNCHANGED returned
    /\ UNCHANGED <<bvars, xvars, inventory, inventory0, set_bonuses, args, relevant, locked,
                   config_index, original_penalties, pending>>

\* lines 481-543: the loops are over
Finish(p) ==
    /\ pc[p] = "loop"
    /\ NoMoreSizes(num_equipments[p], args[p].max_equipments, relevant[p])
    /\ returned' = [returned EXCEPT ![p] = PostLoop(best[p], args[p])]
    /\ pc' = [pc EXCEPT ![p] = "done"]
    /\ UNCHANGED <<bvars, xvars, inventory, inventory0, set_bonuses, args, relevant,
                   num_equipments, combo_index, locked, config_index,
                   original_penalties, best, evaluated, pending>>

Next ==
    \/ \E p \in Procs : Begin(p)
    \/ \E p \in Procs : SelectCombo(p)
    \/ \E p \in Procs : SetPenalties(p)
    \/ \E p \in Procs : ScoreTrial(p)
    \/ \E p \in Procs : Raise(p)
    \/ \E p \in Procs : Finally(p)
    \/ \E p \in Procs : ScorePlain(p)
    \/ \E p \in Procs : Finish(p)

-----------------------------------------------------------------------------
(* The searches that are checked: the inventory is a selection of a pool   *)
(* of valid items, the arguments are drawn from small sets.                *)

PreferredChoices == {None, "Health", "Super"}

\* the most items an inventory holds
MaxItems == 3

\* 1: Health 30, Class 25, Melee 20; 2: Melee 30, Health 25, Grenade 20,
\* locked Melee with the penalty still to choose; 3: Super 30, Melee 25,
\* Health 20, locked Health with the stored penalty Weapon; 4: Weapon 30,
\* Grenade 25, Class 20
ItemPool ==
    <<NewEquipment(1, "Helmet", "Bulwark", "Melee", None, None, "Iron"),
      NewEquipment(2, "Arms", "Brawler", "Grenade", "Melee", None, None),
      NewEquipment(3, "Chest", "Paragon", "Health", "Health", "Weapon", "Iron"),
      NewEquipment(4, "Helmet", "Gunner", "Class", None, None, None)>>

\* the items of the pool with index in S, in pool order
RECURSIVE PoolItems(_, _)
PoolItems(S, i) ==
    IF i > Len(ItemPool) THEN <<>>
    ELSE (IF i \in S THEN <<ItemPool[i]>> ELSE <<>>) \o PoolItems(S, i + 1)

Inventories ==
    {PoolItems(S, 1) : S \in {T \in SUBSET (1..Len(ItemPool)) : Cardinality(T) <= MaxItems}}

\* the tables add_set_bonus can have built: none, or one tier for the set Iron
SetBonusTables ==
    {<<>>, [s \in {"Iron"} |-> [n \in {2} |-> [a \in {"Health"} |-> 10]]]}

SearchTargets ==
    {<<<<k, v>>>> : k \in {"Health", "Weapon"}, v \in {40, 75, 80, 150}}
      \cup {<<<<"Health", v>>, <<"Melee", w>>>> : v \in {40, 80}, w \in {40, 80}}
      \cup {<<<<"Melee", v>>, <<"Health", w>>>> : v \in {40, 80}, w \in {40, 80}}

\* an exotic item as configure_build passes it: all 6 attributes, none below 5
ExoticChoices ==
    {NoExotic,
           [type |-> "Legs",
            attributes |-> [a \in Attrs |-> IF a = "Health" THEN 30 ELSE 5]]}

MaxEquipmentsChoices == {2, 5}

SearchArgs ==
    [target_attributes : SearchTargets, max_equipments : MaxEquipmentsChoices,
     exotic_equipment : ExoticChoices, preferred_attr : PreferredChoices]

\* no allocation call of its own is running
BonusIdle ==
    /\ b_base = <<>> /\ b_target = <<>> /\ b_preferred = None
    /\ b_result = <<>> /\ b_pc = "idle"

\* the other entry points are not being called
OthersIdle == ItemIdle /\ CalcIdle /\ AnalyzeIdle /\ StoreIdle

\* the calls of procs are about to start on one of the inventories
SearchInit(procs, invset, tables, argset) ==
    /\ inventory \in invset
    /\ inventory0 = inventory
    /\ set_bonuses \in tables
    /\ args \in [procs -> argset]
    /\ pc = [p \in procs |-> "start"]
    /\ relevant = [p \in procs |-> <<>>]
    /\ num_equipments = [p \in procs |-> 1]
    /\ combo_index = [p \in procs |-> 1]
    /\ locked = [p \in procs |-> <<>>]
    /\ config_index = [p \in procs |-> 1]
    /\ original_penalties = [p \in procs |-> <<>>]
    /\ best = [p \in procs |-> InitialBest]
    /\ evaluated = [p \in procs |-> <<>>]
    /\ pending = [p \in procs |-> "none"]
    /\ returned = [p \in procs |-> NotFoundEarly("pending")]

\* one call at a time
Init == BonusIdle /\ OthersIdle /\ SearchInit({1}, Inventories, SetBonusTables, SearchArgs)

Spec == Init /\ [][Next]_vars

\* two calls on one inventory (app.py: one global manager, threaded server)
ConcInventories == {PoolItems({2}, 1), PoolItems({1, 3}, 1)}

ConcArgs ==
    [target_attributes : {<<<<"Health", 75>>>>, <<<<"Melee", 85>>>>},
     max_equipments : {5}, exotic_equipment : {NoExotic}, preferred_attr : {None}]

ConcInit == BonusIdle /\ OthersIdle /\ SearchInit({1, 2}, ConcInventories, {<<>>}, ConcArgs)

SpecConc == ConcInit /\ [][Next]_vars

-----------------------------------------------------------------------------
(* The allocation as a one-call state machine: the arguments are drawn     *)
(* from bounded sets, the call stores what the function returns.           *)

\* two iteration orders of a target dict: the catalog's and its reverse
TargetOrders ==
    {EQUIPMENT_ATTRIBUTES,
     [i \in 1..Len(EQUIPMENT_ATTRIBUTES) |->
         EQUIPMENT_ATTRIBUTES[Len(EQUIPMENT_ATTRIBUTES) + 1 - i]]}

TargetValues == {10, 25, 50}

BaseValues == {0, 30}

\* the non-empty target dicts: a prefix of an order, each key with a value
BonusTargets ==
    UNION {UNION {{[i \in 1..n |-> <<order[i], v[i]>>] : v \in [1..n -> TargetValues]}
                  : n \in 1..Len(order)} : order \in TargetOrders}

\* no search is running: the inventory is empty and there is no call
SearchIdle ==
    /\ inventory = <<>> /\ inventory0 = <<>> /\ set_bonuses = <<>>
    /\ pc = <<>> /\ args = <<>> /\ relevant = <<>> /\ num_equipments = <<>>
    /\ combo_index = <<>> /\ locked = <<>> /\ config_index = <<>>
    /\ original_penalties = <<>> /\ best = <<>> /\ evaluated = <<>>
    /\ pending = <<>> /\ returned = <<>>

BonusInit ==
    /\ SearchIdle /\ OthersIdle
    /\ b_target \in BonusTargets
    /\ b_base \in [KeySet(b_target) -> BaseValues]
    /\ b_preferred \in PreferredChoices
    /\ b_result = <<>>
    /\ b_pc = "call"

Allocate ==
    /\ b_pc = "call"
    /\ b_result' = _calculate_optimal_bonuses(b_base, b_target, b_preferred)
    /\ b_pc' = "returned"
    /\ UNCHANGED <<b_base, b_target, b_preferred, svars, xvars>>

BonusNext == Allocate

SpecBonus == BonusInit /\ [][BonusNext]_vars

-----------------------------------------------------------------------------
(* An item is constructed and, when the constructor succeeds, projected to *)
(* its max level.                                                          *)

\* attribute values in thousandths: 0, 20, 25, 30 and 30.005
ItemValues == {0, 20 * MILLI, 25 * MILLI, 30 * MILLI, 30 * MILLI + 5}

NonZeroCounts == 0..4

\* every value on the first four attributes, 0 on Class, 0 or 20 on Weapon
ItemValuesOf(a) ==
    CASE a = "Class" -> {0}
      [] a = "Weapon" -> {0, 20 * MILLI}
      [] OTHER -> ItemValues

ItemAttributeMaps ==
    {f \in [Attrs -> ItemValues] :
        /\ \A a \in Attrs : f[a] \in ItemValuesOf(a)
        /\ Cardinality({a \in Attrs : f[a] # 0}) \in NonZeroCounts}

ItemTags == {None, "Brawler", "Paragon", "Unknown"}

\* stat_tags a caller passes: none, a well-formed map and one with two Main
ItemStatTags ==
    {<<>>,
     [a \in Attrs |-> CASE a = "Health" -> STAT_TYPE_MAIN
                        [] a = "Melee" -> STAT_TYPE_SUB
                        [] a = "Grenade" -> STAT_TYPE_RANDOM
                        [] OTHER -> STAT_TYPE_SUPPLEMENT],
     [a \in Attrs |-> CASE a = "Health" -> STAT_TYPE_MAIN
                        [] a = "Melee" -> STAT_TYPE_MAIN
                        [] a = "Grenade" -> STAT_TYPE_RANDOM
                        [] OTHER -> STAT_TYPE_SUPPLEMENT]}

ItemLevels == {0, MAX_UPGRADE_LEVEL}

\* <<locked_attr, penalty_attr>>
ItemLocks ==
    {<<None, None>>, <<"Health", None>>, <<"Health", "Melee">>,
     <<"Super", "Weapon">>, <<"Health", "Health">>, <<"Mobility", "Melee">>}

\* the constructor's arguments; stat_tags are passed only without a tag (with
\* a tag the constructor replaces them)
ItemInputs ==
    {[type |-> "Helmet", tag |-> tag, attributes |-> f, stat_tags |-> st,
      level |-> lv, locked_attr |-> lp[1], penalty_attr |-> lp[2]] :
        tag \in ItemTags, f \in ItemAttributeMaps, st \in ItemStatTags,
        lv \in ItemLevels, lp \in ItemLocks}

\* items that claim upgrades: the three base values in Brawler's layout, a
\* value of 0, 3 or 5 on Class, and a level below, at, between and above these
UpgradeValues == {0, 3 * MILLI, MAX_UPGRADE_LEVEL * MILLI}

UpgradeLevels == {-1, 0, 3, MAX_UPGRADE_LEVEL}

UpgradeInputs ==
    {[type |-> "Helmet", tag |-> tag,
      attributes |-> [a \in Attrs |->
                        CASE a = "Melee" -> MAIN_VALUE * MILLI
                          [] a = "Health" -> SUB_VALUE * MILLI
                          [] a = "Grenade" -> RANDOM_VALUE * MILLI
                          [] a = "Class" -> c
                          [] OTHER -> 0],
      stat_tags |-> <<>>, level |-> lv, locked_attr |-> None, penalty_attr |-> None] :
        tag \in {None, "Brawler"}, c \in UpgradeValues, lv \in UpgradeLevels}

ItemInit ==
    /\ BonusIdle /\ SearchIdle /\ CalcIdle /\ AnalyzeIdle /\ StoreIdle
    /\ e_input \in {i \in ItemInputs : i.tag # None => i.stat_tags = <<>>}
                      \cup UpgradeInputs
    /\ e_item = None /\ e_error = None /\ e_projection = <<>>
    /\ e_pc = "new"

\* Equipment(...): __post_init__ runs and returns the item or raises
Construct ==
    /\ e_pc = "new"
    /\ e_item' = PostInit(e_input).item
    /\ e_error' = PostInit(e_input).error
    /\ e_pc' = IF PostInit(e_input).error = None THEN "built" ELSE "failed"
    /\ UNCHANGED <<e_input, e_projection, bvars, svars, kvars, avars, mvars>>

\* the item after get_max_level_attributes: the method assigns to max_attrs
\* only, never to a field of self
StoredAfterProjection(equipment) == equipment

\* item.get_max_level_attributes()
Project ==
    /\ e_pc = "built"
    /\ e_projection' = get_max_level_attributes(e_item)
    /\ e_item' = StoredAfterProjection(e_item)
    /\ e_pc' = "projected"
    /\ UNCHANGED <<e_input, e_error, bvars, svars, kvars, avars, mvars>>

ItemNext == Construct \/ Project

SpecItem == ItemInit /\ [][ItemNext]_vars

-----------------------------------------------------------------------------
(* One calculate_combination call on a class inventory.                    *)

\* the longest id list passed
MaxIds == 4

\* four items of the set Iron, one of them locked with a stored penalty, and
\* one item of the set Void
CalcInventory ==
    <<NewEquipment(1, "Helmet", "Bulwark", "Melee", None, None, "Iron"),
      NewEquipment(2, "Arms", "Brawler", "Grenade", "Melee", "Health", "Iron"),
      NewEquipment(3, "Chest", "Paragon", "Health", None, None, "Iron"),
      NewEquipment(4, "Legs", "Gunner", "Class", None, None, "Iron"),
      NewEquipment(5, "ClassItem", "Tactician", "Health", None, None, "Void")>>

\* the ids a caller lists: the inventory's and two it does not hold
CalcIds == InventoryIds(CalcInventory) \cup {8, 9}

CalcIdLists == UNION {[1..n -> CalcIds] : n \in 0..MaxIds}

\* the tables add_set_bonus can have built: none, or tiers 2 and 4 for Iron
\* with tier 1 for Void
CalcBonusTables ==
    {<<>>,
     [s \in {"Iron", "Void"} |->
         IF s = "Iron"
         THEN (2 :> [a \in {"Health"} |-> 10]) @@ (4 :> [a \in {"Health", "Melee"} |-> 25])
         ELSE (1 :> [a \in {"Weapon"} |-> 10])]}

\* no find_combination_by_target call is running
NoSearchCall ==
    /\ pc = <<>> /\ args = <<>> /\ relevant = <<>> /\ num_equipments = <<>>
    /\ combo_index = <<>> /\ locked = <<>> /\ config_index = <<>>
    /\ original_penalties = <<>> /\ best = <<>> /\ evaluated = <<>>
    /\ pending = <<>> /\ returned = <<>>

CalcInit ==
    /\ BonusIdle /\ ItemIdle /\ AnalyzeIdle /\ StoreIdle /\ NoSearchCall
    /\ inventory = CalcInventory /\ inventory0 = inventory
    /\ set_bonuses \in CalcBonusTables
    /\ k_ids \in CalcIdLists
    /\ k_exotic \in ExoticChoices
    /\ k_result = <<>> /\ k_pc = "call"

\* calculator.calculate_combination(equipment_ids, guardian_class, exotic_equipment)
Calculate ==
    /\ k_pc = "call"
    /\ k_result' = calculate_combination(set_bonuses, inventory, k_ids, k_exotic)
    /\ inventory' = InventoryAfterCalculate(inventory)
    /\ k_pc' = "returned"
    /\ UNCHANGED <<k_ids, k_exotic, inventory0, set_bonuses, pc, args, relevant,
                   num_equipments, combo_index, locked, config_index,
                   original_penalties, best, evaluated, pending, returned,
                   bvars, evars, avars, mvars>>

CalcNext == Calculate

SpecCalc == CalcInit /\ [][CalcNext]_vars

-----------------------------------------------------------------------------
(* One _analyze_required_equipments call.                                  *)

\* the most target attributes of a call
MaxTargets == 4

\* the attributes a target names: catalog attributes and one that is not
AnalyzeAttrs == {"Health", "Melee", "Grenade", "Weapon", "Mobility"}

AnalyzeValues == {20, 60}

\* the ordered dicts over 1 to MaxTargets different attributes
AnalyzeTargets ==
    UNION {{t \in [1..n -> AnalyzeAttrs \X AnalyzeValues] :
               Cardinality({t[i][1] : i \in 1..n}) = n} : n \in 1..MaxTargets}

\* current_result["total_attributes"]: none (all 0), or the totals of a best
\* combination
AnalyzeCurrents ==
    {NoCurrentResult,
     [a \in Attrs |-> CASE a = "Health" -> 30 [] a = "Melee" -> 60 [] OTHER -> 10]}

\* exotic_type: none, two catalog types and a type that is not in the list
AnalyzeExoticTypes == {None, "Helmet", "Chest", "Unknown"}

AnalyzeInit ==
    /\ BonusIdle /\ SearchIdle /\ ItemIdle /\ CalcIdle /\ StoreIdle
    /\ a_target \in AnalyzeTargets
    /\ a_current \in AnalyzeCurrents
    /\ a_exotic_type \in AnalyzeExoticTypes
    /\ a_result = <<>> /\ a_pc = "call"

\* self._analyze_required_equipments(target_attributes, current_result, ...)
Analyze ==
    /\ a_pc = "call"
    /\ a_result' = _analyze_required_equipments(a_target, a_current, a_exotic_type)
    /\ a_pc' = "returned"
    /\ UNCHANGED <<a_target, a_current, a_exotic_type, bvars, svars, evars, kvars, mvars>>

AnalyzeNext == Analyze

SpecAnalyze == AnalyzeInit /\ [][AnalyzeNext]_vars

-----------------------------------------------------------------------------
(* inventory.py: Inventory and ClassInventoryManager.  The equipments of   *)
(* an inventory are the dict id -> item, kept as the sequence of its items *)
(* in insertion order.  class_restriction is the sequence of the classes,  *)
(* and NoRestriction where the source has None.                            *)

\* GuardianClass.get_all_classes()
GuardianClasses == <<"Titan", "Hunter", "Warlock">>

ClassNames == {GuardianClasses[i] : i \in 1..Len(GuardianClasses)}

NoRestriction == <<None>>

\* a variant that takes every item
Eligible_Always(equipment, guardian_class) == TRUE

\* class_restriction is None or self.guardian_class in class_restriction
Eligible(equipment, guardian_class) ==
    \/ equipment.class_restriction = NoRestriction
    \/ \E i \in 1..Len(equipment.class_restriction) :
          equipment.class_restriction[i] = guardian_class

\* self.equipments[equipment.id] = equipment: a held id keeps its place
PutEquipment(equipments, equipment) ==
    IF equipment.id \in InventoryIds(equipments)
    THEN [i \in 1..Len(equipments) |->
             IF equipments[i].id = equipment.id THEN equipment ELSE equipments[i]]
    ELSE Append(equipments, equipment)

\* Inventory.add_equipment: the ValueError it raises, None for none
Inventory_add_error(guardian_class, equipment) ==
    IF Eligible(equipment, guardian_class) THEN None ELSE "not_eligible"

\* Inventory.add_equipment: the equipments after the call
Inventory_add_equipment(equipments, guardian_class, equipment) ==
    IF Inventory_add_error(guardian_class, equipment) = None
    THEN PutEquipment(equipments, equipment) ELSE equipments

\* Inventory.remove_equipment
Inventory_remove_equipment(equipments, equipment_id) ==
    SelectSeq(equipments, LAMBDA e : e.id # equipment_id)

\* ClassInventoryManager.__init__
EmptyInventories == [c \in ClassNames |-> <<>>]

\* the inventories ClassInventoryManager.add_equipment calls add_equipment on
RoutedTo(equipment) ==
    IF equipment.class_restriction = NoRestriction THEN ClassNames
    ELSE {equipment.class_restriction[i] : i \in 1..Len(equipment.class_restriction)}

\* ClassInventoryManager.add_equipment
Manager_add_equipment(invs, equipment) ==
    [c \in ClassNames |->
        IF c \in RoutedTo(equipment)
        THEN Inventory_add_equipment(invs[c], c, equipment) ELSE invs[c]]

\* a variant that removes from the first class when no class is given
Manager_remove_equipment_FirstClass(invs, equipment_id, guardian_class) ==
    [c \in ClassNames |->
        IF c = guardian_class \/ (guardian_class = None /\ c = GuardianClasses[1])
        THEN Inventory_remove_equipment(invs[c], equipment_id) ELSE invs[c]]

\* ClassInventoryManager.remove_equipment; guardian_class None means every class
Manager_remove_equipment(invs, equipment_id, guardian_class) ==
    [c \in ClassNames |->
        IF guardian_class = None \/ c = guardian_class
        THEN Inventory_remove_equipment(invs[c], equipment_id) ELSE invs[c]]

-----------------------------------------------------------------------------
(* equipment_manager.py: EquipmentManager.  An id                          *)
(* f"{class_key}_{equipment_type}_{n:03d}" is kept as its three parts;     *)
(* equipment_counter[class_key][equipment_type] is kept under the key      *)
(* <<class_key, equipment_type>>.                                          *)

EquipmentId(class_key, equipment_type, n) == <<class_key, equipment_type, n>>

\* int(equipment.id.split('_')[-1])
IdNumber(id) == id[Len(id)]

\* the first attribute of existing_eq.stat_tags with the Random type
existing_random_stat(existing_eq) ==
    IF WithType(existing_eq.stat_tags, STAT_TYPE_RANDOM) = <<>> THEN None
    ELSE Head(WithType(existing_eq.stat_tags, STAT_TYPE_RANDOM))

\* a variant of the loop that finds no item
SameEquipmentExists_Never(equipments, equipment_type, tag, random_stat, locked_attr) ==
    FALSE

\* the loop over existing_equipments finds the same item
SameEquipmentExists(equipments, equipment_type, tag, random_stat, locked_attr) ==
    \E i \in 1..Len(equipments) :
        /\ equipments[i].type = equipment_type
        /\ equipments[i].tag = tag
        /\ existing_random_stat(equipments[i]) = random_stat
        /\ equipments[i].locked_attr = locked_attr

\* the ValueError add_equipment_simple raises before it takes an id
AddError(equipments, equipment_type, tag, random_stat, locked_attr) ==
    IF tag \notin DOMAIN EQUIPMENT_TAGS THEN "unknown_tag"
    ELSE IF \A i \in 1..Len(EQUIPMENT_TYPES) : EQUIPMENT_TYPES[i] # equipment_type
         THEN "unknown_type"
    ELSE IF random_stat \notin Attrs THEN "unknown_attribute"
    ELSE IF random_stat \in {EQUIPMENT_TAGS[tag][1], EQUIPMENT_TAGS[tag][2]}
         THEN "random_repeats"
    ELSE IF SameEquipmentExists(equipments, equipment_type, tag, random_stat, locked_attr)
         THEN "same_equipment"
    ELSE None

\* the arguments of Equipment(...) in add_equipment_simple, values in thousandths
SimpleInput(equipment_type, tag, random_stat, locked_attr) ==
    [type |-> equipment_type, tag |-> tag,
     attributes |-> [a \in Attrs |->
                        IF a = EQUIPMENT_TAGS[tag][1] THEN MAIN_VALUE * MILLI
                        ELSE IF a = EQUIPMENT_TAGS[tag][2] THEN SUB_VALUE * MILLI
                        ELSE IF a = random_stat THEN RANDOM_VALUE * MILLI
                        ELSE 0],
     stat_tags |-> <<>>, level |-> 0, locked_attr |-> locked_attr, penalty_attr |-> None]

\* add_equipment_simple: the error raised, the id taken, and the inventories
\* and the counter after the call
add_equipment_simple(invs, counter, guardian_class, equipment_type, tag, random_stat, locked_attr, set_name) ==
    LET error == AddError(invs[guardian_class], equipment_type, tag, random_stat,
                          locked_attr)
        key == <<guardian_class, equipment_type>>
        n == Get(counter, key) + 1
        equipment_id == EquipmentId(guardian_class, equipment_type, n)
        built == PostInit(SimpleInput(equipment_type, tag, random_stat, locked_attr))
        equipment == [class_restriction |-> <<guardian_class>>]
                        @@ NewEquipment(equipment_id, equipment_type, tag, random_stat,
                                        locked_attr, None, set_name)
    IN IF error # None
       THEN [error |-> error, id |-> <<>>, inventories |-> invs,
             equipment_counter |-> counter]
       ELSE IF built.error # None
       THEN [error |-> built.error, id |-> <<>>, inventories |-> invs,
             equipment_counter |-> Put(counter, key, n)]
       ELSE [error |-> None, id |-> equipment_id,
             inventories |-> Manager_add_equipment(invs, equipment),
             equipment_counter |-> Put(counter, key, n)]

\* EquipmentManager.remove_equipment: the inventories after the call
remove_equipment(invs, equipment_id, guardian_class) ==
    IF equipment_id \in InventoryIds(invs[guardian_class])
    THEN Manager_remove_equipment(invs, equipment_id, guardian_class)
    ELSE invs

\* _save_to_storage: the items of the classes in get_all_classes order, an id
\* once; equipment_to_dict writes the restriction None as the empty list
RECURSIVE AllEquipments(_, _, _)
AllEquipments(invs, c, all_equipments) ==
    IF c > Len(GuardianClasses) THEN all_equipments
    ELSE AllEquipments(invs, c + 1,
             all_equipments \o SelectSeq(invs[GuardianClasses[c]],
                                  LAMBDA e : e.id \notin InventoryIds(all_equipments)))

equipment_to_dict(equipment) ==
    [equipment EXCEPT !.class_restriction = IF @ = NoRestriction THEN <<>> ELSE @]

_save_to_storage(invs) ==
    [i \in 1..Len(AllEquipments(invs, 1, <<>>)) |->
        equipment_to_dict(AllEquipments(invs, 1, <<>>)[i])]

\* dict_to_equipment: an empty class_restriction is read as None
dict_to_equipment(data) ==
    [data EXCEPT !.class_restriction = IF @ = <<>> THEN NoRestriction ELSE @]

\* the error of the constructor call in dict_to_equipment; load_equipments
\* skips the item then
LoadError(data) ==
    PostInit([type |-> data.type, tag |-> data.tag,
              attributes |-> [a \in Attrs |-> data.attributes[a] * MILLI],
              stat_tags |-> data.stat_tags, level |-> data.level,
              locked_attr |-> data.locked_attr,
              penalty_attr |-> data.penalty_attr]).error

\* a variant that leaves the counter as it is
CounterAfterLoad_Skipped(counter, equipment, i) == counter

\* the counter after _load_from_storage saw the item: the largest number used,
\* for each class of the restriction
RECURSIVE CounterAfterLoad(_, _, _)
CounterAfterLoad(counter, equipment, i) ==
    IF equipment.class_restriction = NoRestriction
          \/ i > Len(equipment.class_restriction)
    THEN counter
    ELSE LET key == <<equipment.class_restriction[i], equipment.type>>
         IN CounterAfterLoad(Put(counter, key, Max(Get(counter, key), IdNumber(equipment.id))),
                             equipment, i + 1)

\* _load_from_storage: the inventories and the counter after the file is read
RECURSIVE _load_from_storage(_, _, _)
_load_from_storage(stored, invs, counter) ==
    IF stored = <<>> THEN [inventories |-> invs, equipment_counter |-> counter]
    ELSE IF LoadError(Head(stored)) # None
    THEN _load_from_storage(Tail(stored), invs, counter)
    ELSE _load_from_storage(Tail(stored),
             Manager_add_equipment(invs, dict_to_equipment(Head(stored))),
             CounterAfterLoad(counter, dict_to_equipment(Head(stored)), 1))

-----------------------------------------------------------------------------
(* One store: an EquipmentManager over an equipment storage file that is   *)
(* empty at first; the manager is used, and constructed again at each      *)
(* start-up.                                                               *)

\* the largest number add_equipment_simple gives out for a class and a type
MaxCounter == 2

ManagerClasses == {"Titan", "Hunter"}

\* <<equipment_type, tag, random_stat, locked_attr>>: two items of the
\* catalogs, one of them locked; then a lock, a type, a tag and a random stat
\* that are in no catalog, and a random stat that is the Main (Health) and the
\* Sub (Class) attribute of the tag
ManagerInputs ==
    {<<"Helmet", "Bulwark", "Melee", None>>,
     <<"Helmet", "Gunner", "Melee", "Melee">>,
     <<"Helmet", "Bulwark", "Melee", "Mobility">>,
     <<"Cloak", "Bulwark", "Melee", None>>,
     <<"Helmet", "Striker", "Melee", None>>,
     <<"Helmet", "Bulwark", "Mobility", None>>,
     <<"Helmet", "Bulwark", "Health", None>>,
     <<"Helmet", "Bulwark", "Class", None>>}

\* <<guardian_class, input>>: every input for Titan, one item for Hunter
ManagerCalls ==
    ({"Titan"} \X ManagerInputs)
        \cup ({"Hunter"} \X {<<"Helmet", "Bulwark", "Melee", None>>})

ManagerIds ==
    {EquipmentId(c, "Helmet", n) : c \in ManagerClasses, n \in 1..MaxCounter}

\* <<equipment_id, guardian_class>>: every id with its own class, and an id
\* of Titan with the class Hunter, whose inventory never holds it
RemoveCalls ==
    {<<id, id[1]>> : id \in ManagerIds}
        \cup {<<EquipmentId("Titan", "Helmet", 1), "Hunter">>}

\* the last call: a manager was constructed on the empty file
ManagerInit ==
    /\ BonusIdle /\ SearchIdle /\ ItemIdle /\ CalcIdle /\ AnalyzeIdle
    /\ storage = <<>>
    /\ inventories = _load_from_storage(storage, EmptyInventories, <<>>).inventories
    /\ equipment_counter =
          _load_from_storage(storage, EmptyInventories, <<>>).equipment_counter
    /\ issued = {}
    /\ m_last = [op |-> "start", args |-> <<>>, error |-> None, id |-> <<>>]
    /\ m_log = <<>>

\* manager.add_equipment_simple(guardian_class, equipment_type, tag, ...)
AddSimple ==
    \E call \in ManagerCalls :
        LET guardian_class == call[1]
            equipment_type == call[2][1]
            tag == call[2][2]
            random_stat == call[2][3]
            locked_attr == call[2][4]
            r == add_equipment_simple(inventories, equipment_counter, guardian_class,
                                      equipment_type, tag, random_stat, locked_attr, None)
        IN /\ \/ r.equipment_counter = equipment_counter
              \/ Get(equipment_counter, <<guardian_class, equipment_type>>) < MaxCounter
           /\ inventories' = r.inventories
           /\ equipment_counter' = r.equipment_counter
           /\ issued' = IF r.error = None THEN issued \cup {r.id} ELSE issued
           /\ storage' = IF r.error = None THEN _save_to_storage(r.inventories)
                         ELSE storage
           /\ m_last' = [op |-> "add",
                         args |-> <<guardian_class, equipment_type, tag, random_stat,
                                    locked_attr>>,
                         error |-> r.error, id |-> r.id]
           /\ UNCHANGED <<m_log, bvars, svars, evars, kvars, avars>>

\* manager.remove_equipment(equipment_id, guardian_class)
RemoveEquipment ==
    \E equipment_id \in ManagerIds, guardian_class \in ManagerClasses :
        /\ <<equipment_id, guardian_class>> \in RemoveCalls
        /\ inventories' = remove_equipment(inventories, equipment_id, guardian_class)
        /\ storage' = IF equipment_id \in InventoryIds(inventories[guardian_class])
                       THEN _save_to_storage(inventories') ELSE storage
        /\ m_last' = [op |-> "remove", args |-> <<equipment_id, guardian_class>>,
                      error |-> None, id |-> <<>>]
        /\ UNCHANGED <<equipment_counter, issued, m_log, bvars, svars, evars, kvars, avars>>

\* the process ends and starts again: EquipmentManager() reads the file
StartUp ==
    /\ inventories' = _load_from_storage(storage, EmptyInventories, <<>>).inventories
    /\ equipment_counter' =
          _load_from_storage(storage, EmptyInventories, <<>>).equipment_counter
    /\ issued' = {}
    /\ m_last' = [op |-> "start", args |-> <<>>, error |-> None, id |-> <<>>]
    /\ UNCHANGED <<storage, m_log, bvars, svars, evars, kvars, avars>>

ManagerNext == AddSimple \/ RemoveEquipment \/ StartUp

SpecManager == ManagerInit /\ [][ManagerNext]_vars

-----------------------------------------------------------------------------
(* One ClassInventoryManager and its three inventories, used directly.     *)

\* the most calls made on the manager and its inventories
MaxCalls == 3

\* items with two ids: for every class, for Titan, for Hunter and Warlock
InventoryItems ==
    {[id |-> id, class_restriction |-> r] :
        id \in {1, 2}, r \in {NoRestriction, <<"Titan">>, <<"Hunter", "Warlock">>}}

\* the items and classes of the direct Inventory.add_equipment calls
InventoryAddItems == {e \in InventoryItems : e.id = 1}

DirectClasses == {"Titan", "Warlock"}

\* guardian_class of ClassInventoryManager.remove_equipment
RemoveClasses == {None, "Titan", "Hunter"}

InventoryInit ==
    /\ BonusIdle /\ SearchIdle /\ ItemIdle /\ CalcIdle /\ AnalyzeIdle
    /\ inventories = EmptyInventories
    /\ equipment_counter = <<>> /\ storage = <<>> /\ issued = {}
    /\ m_last = [op |-> "start", args |-> <<>>, error |-> None, id |-> <<>>]
    /\ m_log = <<>>

\* the call is made and written to the log
Called(call) ==
    /\ Len(m_log) < MaxCalls
    /\ m_last' = call
    /\ m_log' = Append(m_log, call)
    /\ UNCHANGED <<equipment_counter, storage, issued, bvars, svars, evars, kvars, avars>>

\* inventory_manager.get_inventory(guardian_class).add_equipment(equipment)
InventoryAdd ==
    \E guardian_class \in DirectClasses, equipment \in InventoryAddItems :
        /\ inventories' =
              [inventories EXCEPT ![guardian_class] =
                  Inventory_add_equipment(@, guardian_class, equipment)]
        /\ Called([op |-> "inventory_add", args |-> <<equipment, guardian_class>>,
                   error |-> Inventory_add_error(guardian_class, equipment),
                   id |-> <<>>])

\* inventory_manager.add_equipment(equipment)
ManagerAdd ==
    \E equipment \in InventoryItems :
        /\ inventories' = Manager_add_equipment(inventories, equipment)
        /\ Called([op |-> "manager_add", args |-> <<equipment, None>>,
                   error |-> None, id |-> <<>>])

\* inventory_manager.remove_equipment(equipment_id, guardian_class)
ManagerRemove ==
    \E equipment_id \in {1, 2}, guardian_class \in RemoveClasses :
        /\ inventories' = Manager_remove_equipment(inventories, equipment_id, guardian_class)
        /\ Called([op |-> "manager_remove", args |-> <<equipment_id, guardian_class>>,
                   error |-> None, id |-> <<>>])

InventoryNext == InventoryAdd \/ ManagerAdd \/ ManagerRemove

SpecInventory == InventoryInit /\ [][InventoryNext]_vars

-----------------------------------------------------------------------------
(* Properties of _calculate_optimal_bonuses, stated on the arguments and   *)
(* the returned allocation of one call.                                    *)

BTargetKeys == KeySet(b_target)

\* the shortfall max(0, target - base) of a target attribute, 0 for any other
Shortfall(a) ==
    IF a \in BTargetKeys THEN Max(0, ValueOf(b_target, a) - Get(b_base, a)) ELSE 0

\* ceil(shortfall / 10): the least number of +10 units covering the shortfall
CeilUnits(a) ==
    CHOOSE u \in 0..Shortfall(a) : 10 * u >= Shortfall(a) /\ 10 * (u - 1) < Shortfall(a)

ShortAttrs == {a \in BTargetKeys : Shortfall(a) > 0}

RECURSIVE SumCeilUnits(_)
SumCeilUnits(S) ==
    IF S = {} THEN 0
    ELSE LET a == CHOOSE x \in S : TRUE IN CeilUnits(a) + SumCeilUnits(S \ {a})

TotalUnitsNeeded == SumCeilUnits(ShortAttrs)

\* position of a target attribute in the iteration order of the target dict
TargetPos(a) == CHOOSE i \in 1..Len(b_target) : b_target[i][1] = a

\* 0-based rank of a shortfall attribute in descending shortfall order, ties in
\* target iteration order
ShortRank(a) ==
    Cardinality({c \in ShortAttrs :
                    \/ Shortfall(c) > Shortfall(a)
                    \/ Shortfall(c) = Shortfall(a) /\ TargetPos(c) < TargetPos(a)})

\* the share of the attribute of rank r when units are handed out one at a
\* time to n attributes in rank order, until none is left
ShareInOrder(units, n, r) == (units \div n) + (IF r < units % n THEN 1 ELSE 0)

\* C7: for every base map, non-empty target map and preferred attribute (or
\* none) the returned unit counts are non-negative integers that sum to
\* exactly 5.
C7_UnitsSumToFive ==
    b_pc = "returned" =>
        /\ \A a \in DOMAIN b_result : b_result[a] \in Nat
        /\ SumValues(b_result) = 5

\* C8: when some target attribute has a shortfall and the units needed are at
\* most 5, every attribute with a shortfall gets ceil(shortfall / 10) units,
\* and all remaining units go to the preferred attribute when one is given,
\* else they are all handed out in descending shortfall order (ties in target
\* iteration order).
C8_ExactThenRemainder ==
    (b_pc = "returned" /\ ShortAttrs # {} /\ TotalUnitsNeeded <= 5) =>
        LET remaining == 5 - TotalUnitsNeeded
            n == Cardinality(ShortAttrs)
        IN \A a \in Attrs :
              Get(b_result, a) =
                 IF b_preferred # None
                 THEN CeilUnits(a) + (IF a = b_preferred THEN remaining ELSE 0)
                 ELSE IF a \in ShortAttrs
                      THEN CeilUnits(a) + ShareInOrder(remaining, n, ShortRank(a))
                      ELSE 0

\* C9: when the units needed exceed 5, every attribute with a shortfall first
\* gets 1 unit (floor(1 * 5 / count) when more than 5 attributes have one) and
\* then all units still unassigned are handed out in descending shortfall
\* order (ties in target iteration order).
C9_OneEachThenRemainder ==
    (b_pc = "returned" /\ TotalUnitsNeeded > 5) =>
        LET n == Cardinality(ShortAttrs)
            first == IF n > 5 THEN 5 \div n ELSE 1
            unassigned == 5 - n * first
        IN \A a \in Attrs :
              Get(b_result, a) =
                 IF a \in ShortAttrs
                 THEN first + ShareInOrder(unassigned, n, ShortRank(a))
                 ELSE 0

\* C10: when no target attribute has a shortfall, all 5 units go to the
\* preferred attribute if one is given (every other target attribute gets 0),
\* and otherwise the i-th target attribute in iteration order gets 5 div n
\* units plus one more if it is among the first 5 mod n.
C10_NoShortfallSplit ==
    (b_pc = "returned" /\ \A a \in BTargetKeys : Get(b_base, a) >= ValueOf(b_target, a)) =>
        LET n == Len(b_target)
        IN IF b_preferred # None
           THEN /\ b_result[b_preferred] = 5
                /\ \A a \in BTargetKeys \ {b_preferred} : b_result[a] = 0
           ELSE /\ DOMAIN b_result = BTargetKeys
                /\ \A i \in 1..n :
                      b_result[b_target[i][1]] =
                          (5 \div n) + (IF i <= 5 % n THEN 1 ELSE 0)

\* C10 witness: a returned call without shortfall and without preference whose
\* 5 units do not divide evenly over the 3 target attributes
C10_Witness ==
    /\ b_pc = "returned"
    /\ \A a \in BTargetKeys : Get(b_base, a) >= ValueOf(b_target, a)
    /\ b_preferred = None
    /\ Len(b_target) = 3
    /\ b_result[b_target[1][1]] = 2
    /\ b_result[b_target[3][1]] = 1

-----------------------------------------------------------------------------
(* Properties of find_combination_by_target, stated on the candidates a    *)
(* call scored (their bonus-adjusted attributes) and on what it returned.  *)

TargetOf(p) == args[p].target_attributes

\* the entry meets every target: no target attribute is under its target
MeetsAll(p, e) ==
    \A a \in KeySet(TargetOf(p)) : e.final_attributes[a] >= ValueOf(TargetOf(p), a)

\* the score of an entry, times 10
RECURSIVE EntryScoreOver(_, _, _)
EntryScoreOver(p, e, S) ==
    IF S = {} THEN 0
    ELSE LET a == CHOOSE x \in S : TRUE
             gap == ValueOf(TargetOf(p), a) - e.final_attributes[a]
         IN (IF gap > 0 THEN 10 * gap * gap ELSE 0 - gap)
               + EntryScoreOver(p, e, S \ {a})

EntryScore(p, e) == EntryScoreOver(p, e, KeySet(TargetOf(p)))

\* the bonus-adjusted value of the preferred attribute
EntryPreferred(p, e) == e.final_attributes[args[p].preferred_attr]

Scored(p) == 1..Len(evaluated[p])

MetIndices(p) == {i \in Scored(p) : MeetsAll(p, evaluated[p][i])}

ExactIndices(p) == {i \in MetIndices(p) : EntryScore(p, evaluated[p][i]) = 0}

\* what was returned is the i-th scored candidate
ReturnedIs(p, i) ==
    /\ returned[p].index = i
    /\ returned[p].combination = evaluated[p][i].combo
    /\ returned[p].penalty_configs = evaluated[p][i].penalty_config

\* the step machine and the recursion agree on what a lone call returns
AloneAgrees ==
    \A p \in Procs :
        (pc[p] = "done" /\ Cardinality(Procs) = 1) =>
            returned[p] = FindAlone(set_bonuses, inventory0, args[p])

\* C1: the first scored candidate that meets all targets with score 0 is
\* returned at once with found = true, whatever was scored before it and
\* whether or not a preferred attribute is given: nothing is scored after it.
C1_FirstExactReturned ==
    \A p \in Procs : \A i \in ExactIndices(p) :
        /\ i = Len(evaluated[p])
        /\ pc[p] \in {"finally", "done"}
        /\ returned[p].found /\ ReturnedIs(p, i)

\* C2: when the enumeration ends without an exact-match return and some
\* scored candidate met all targets, the returned combination is, among the
\* scored candidates that met all targets, one with the highest preferred
\* value and among those one with the lowest score (with a preferred
\* attribute), or one with the lowest score (without).
C2_BestAmongMet ==
    \A p \in Procs :
        (pc[p] = "done" /\ returned[p].kind # "exact" /\ MetIndices(p) # {}) =>
            \E j \in MetIndices(p) :
                /\ ReturnedIs(p, j)
                /\ \A i \in MetIndices(p) :
                      LET ej == evaluated[p][j]
                          ei == evaluated[p][i]
                      IN IF args[p].preferred_attr # None
                         THEN \/ EntryPreferred(p, ej) > EntryPreferred(p, ei)
                              \/ /\ EntryPreferred(p, ej) = EntryPreferred(p, ei)
                                 /\ EntryScore(p, ej) <= EntryScore(p, ei)
                         ELSE EntryScore(p, ej) <= EntryScore(p, ei)

\* C3: as soon as some scored candidate meets all targets the retained best
\* is a candidate that meets them all (a candidate that does replaces a best
\* that does not, and is never replaced by one that fails a target); hence a
\* finished search returns found = true exactly if some scored candidate
\* met every target.
C3_MetBeatsUnmet ==
    \A p \in Procs :
        /\ (MetIndices(p) # {}) <=> (best[p].index \in MetIndices(p))
        /\ pc[p] = "done" => (returned[p].found <=> MetIndices(p) # {})

\* C3 witness: a finished search that returns a candidate meeting all targets
\* which was scored after one that fails a target and before another one
C3_Witness ==
    \E p \in Procs :
        /\ pc[p] = "done" /\ returned[p].found
        /\ \E i, j, k \in Scored(p) :
              /\ i < j /\ j < k /\ returned[p].index = j
              /\ i \notin MetIndices(p) /\ k \notin MetIndices(p)

\* C4: when no scored candidate meets all targets, the best_combination
\* returned with found = false is the first scored candidate with the minimum
\* score.
C4_FirstMinimumScore ==
    \A p \in Procs :
        (pc[p] = "done" /\ evaluated[p] # <<>> /\ MetIndices(p) = {}) =>
            /\ ~returned[p].found
            /\ \E j \in Scored(p) :
                  /\ ReturnedIs(p, j)
                  /\ \A i \in Scored(p) :
                        /\ EntryScore(p, evaluated[p][j]) <= EntryScore(p, evaluated[p][i])
                        /\ i < j => EntryScore(p, evaluated[p][j])
                                        < EntryScore(p, evaluated[p][i])

\* C4 witness: a finished search without a candidate meeting all targets, whose
\* returned candidate replaced an earlier one and ties with a later one
C4_Witness ==
    \E p \in Procs :
        /\ pc[p] = "done" /\ MetIndices(p) = {} /\ returned[p].index > 1
        /\ \E k \in Scored(p) :
              /\ k > returned[p].index
              /\ EntryScore(p, evaluated[p][k])
                    = EntryScore(p, evaluated[p][returned[p].index])

\* C5: when a call has returned or raised, the inventory holds the same items
\* with the same penalty_attr, locked_attr, level and stored attributes as
\* before the call; a trial penalty is in the items only while a candidate is
\* being scored.
C5_ItemsRestored ==
    \A p \in Procs :
        /\ pc[p] \in {"done", "raised"} => inventory = inventory0
        /\ inventory # inventory0 => pc[p] \in {"try", "finally"}

\* C5 witness: a call that raised while a candidate with trial penalties was
\* being scored
C5_Witness ==
    \E p \in Procs :
        /\ pc[p] = "raised" /\ pending[p] = "raise"
        /\ \E id \in DOMAIN original_penalties[p] :
              get_equipment(inventory, id).penalty_attr = None

\* the entries of a returned dict, without the bookkeeping of this model
ResultDict(r) ==
    [f \in {"found", "combination", "penalty_configs", "bonus_allocation",
            "total_attributes", "missing_attributes"} |-> r[f]]

\* the call returned what it returns when it runs alone on the inventory
ReturnsAsAlone(p) ==
    ResultDict(returned[p]) = ResultDict(FindAlone(set_bonuses, inventory0, args[p]))

\* some item is locked without a stored penalty: a search tries penalties on it
HasPendingPenalty(inv) ==
    \E i \in 1..Len(inv) : inv[i].locked_attr # None /\ inv[i].penalty_attr = None

\* C6 as stated: under every interleaving of two calls on one inventory each
\* call returns what it returns alone, and when both have finished every
\* item has the penalty_attr it had before.
C6_ConcurrentSafe ==
    /\ \A p \in Procs : pc[p] = "done" => ReturnsAsAlone(p)
    /\ (\A p \in Procs : pc[p] \in {"done", "raised"}) => inventory = inventory0

\* C6 amended: when no item of the inventory is locked without a stored
\* penalty, two concurrent calls never change an item, and each returns what
\* it returns alone.
C6_SafeWithoutPendingPenalty ==
    ~HasPendingPenalty(inventory0) =>
        /\ inventory = inventory0
        /\ \A p \in Procs : pc[p] = "done" => ReturnsAsAlone(p)

\* C6 witness: two calls have both finished, each after scoring several
\* candidates, on an inventory with a locked item whose penalty is stored
C6_Witness ==
    /\ Cardinality(Procs) = 2
    /\ ~HasPendingPenalty(inventory0)
    /\ \E i \in 1..Len(inventory0) : inventory0[i].locked_attr # None
    /\ \A p \in Procs :
          pc[p] = "done" /\ returned[p].combination # <<>> /\ Len(evaluated[p]) >= 2

\* the calculator totals of the returned combination, with the items under
\* the returned penalty assignment
ReturnedBaseTotals(p) ==
    calculate_combination(set_bonuses,
                          SetPenaltyAttrs(inventory0, returned[p].penalty_configs),
                          returned[p].combination,
                          args[p].exotic_equipment).total_attributes

\* the target attributes whose reported value is under the target
ReportedGaps(p) ==
    {a \in KeySet(TargetOf(p)) :
        returned[p].total_attributes[a] < ValueOf(TargetOf(p), a)}

\* C11: in every result that carries a combination, the reported
\* total_attributes are the calculator totals of the combination under the
\* reported penalty assignment plus 10 per allocated bonus unit; with
\* found = true every target attribute's reported value is at least its
\* target, with found = false missing_attributes holds exactly the target
\* attributes with a positive gap, each mapped to target - reported value.
C11_ReportedTotals ==
    \A p \in Procs :
        (pc[p] = "done" /\ returned[p].combination # <<>>) =>
            /\ DOMAIN returned[p].total_attributes = Attrs
            /\ \A a \in Attrs :
                  returned[p].total_attributes[a]
                      = ReturnedBaseTotals(p)[a]
                            + 10 * Get(returned[p].bonus_allocation, a)
            /\ returned[p].found => ReportedGaps(p) = {}
            /\ ~returned[p].found =>
                  /\ ReportedGaps(p) # {}
                  /\ returned[p].missing_attributes =
                        [a \in ReportedGaps(p) |->
                            ValueOf(TargetOf(p), a) - returned[p].total_attributes[a]]

\* C11 witness: a returned best combination with a trial penalty assignment,
\* allocated bonus units and two missing attributes
C11_Witness ==
    \E p \in Procs :
        /\ pc[p] = "done" /\ ~returned[p].found
        /\ DOMAIN returned[p].penalty_configs # {}
        /\ SumValues(returned[p].bonus_allocation) > 0
        /\ Cardinality(DOMAIN returned[p].missing_attributes) = 2

\* no item of the inventory has a positive max-level value for a target
NoCandidate(p) ==
    \A i \in 1..Len(inventory0) : \A a \in KeySet(TargetOf(p)) :
        get_max_level_attributes(inventory0[i])[a] <= 0

\* C12: if no item of the inventory has a positive max-level value for at
\* least one target attribute (the inventory may be empty), the call scores no
\* combination and returns found = false with an empty required_equipments
\* list, with or without an exotic item.
C12_NoCandidateNotFound ==
    \A p \in Procs :
        NoCandidate(p) =>
            /\ evaluated[p] = <<>>
            /\ pc[p] = "done" =>
                  /\ ~returned[p].found
                  /\ returned[p].combination = <<>>
                  /\ returned[p].required_equipments = <<>>

\* C12 witness: a finished call with an exotic item on an inventory that holds
\* an item, none of them with a positive value for the target
C12_Witness ==
    \E p \in Procs :
        /\ pc[p] = "done" /\ NoCandidate(p)
        /\ inventory0 # <<>> /\ args[p].exotic_equipment # NoExotic

-----------------------------------------------------------------------------
(* Properties of the construction of an item and of its max-level          *)
(* projection, stated on the states of SpecItem.                           *)

\* both a locked and a penalty attribute are set on the item
BothSet(equipment) ==
    equipment.locked_attr # None /\ equipment.penalty_attr # None

\* the locked and the penalty attribute, when set, are distinct catalog
\* attributes
DistinctCatalogLocks(equipment) ==
    /\ equipment.locked_attr # None => equipment.locked_attr \in Attrs
    /\ equipment.penalty_attr # None => equipment.penalty_attr \in Attrs
    /\ BothSet(equipment) => equipment.locked_attr # equipment.penalty_attr

\* the value of an attribute's slot at max level: 30, 25, 20 or 5
SlotValue(equipment, a) ==
    IF equipment.stat_tags[a] = STAT_TYPE_MAIN THEN MAIN_VALUE
    ELSE IF equipment.stat_tags[a] = STAT_TYPE_SUB THEN SUB_VALUE
    ELSE IF equipment.stat_tags[a] = STAT_TYPE_RANDOM THEN RANDOM_VALUE
    ELSE MAX_UPGRADE_LEVEL

\* what the penalty takes from the penalty attribute's slot value
PenaltyDeducted(equipment, projection) ==
    SlotValue(equipment, equipment.penalty_attr) - projection[equipment.penalty_attr]

\* C13: for a constructed item whose locked and penalty attributes, when set,
\* are distinct catalog attributes, the projection gives every attribute its
\* slot value (Main 30, Sub 25, Random 20, Supplement 5); with both set the
\* locked attribute has 5 more and the penalty attribute 5 less, not below 0;
\* with either unset nothing is adjusted.  The values sum to 75 + 15, plus 5
\* and minus the deducted penalty when both are set.
C13_MaxLevelValues ==
    (e_pc = "projected" /\ DistinctCatalogLocks(e_item)) =>
        /\ \A a \in Attrs :
              e_projection[a] =
                  IF BothSet(e_item) /\ a = e_item.locked_attr
                  THEN SlotValue(e_item, a) + 5
                  ELSE IF BothSet(e_item) /\ a = e_item.penalty_attr
                       THEN Max(0, SlotValue(e_item, a) - 5)
                       ELSE SlotValue(e_item, a)
        /\ SumOver(e_projection, Attrs) =
              (MAIN_VALUE + SUB_VALUE + RANDOM_VALUE) + 3 * MAX_UPGRADE_LEVEL
                 + (IF BothSet(e_item)
                    THEN 5 - PenaltyDeducted(e_item, e_projection) ELSE 0)

\* C13 witness: a projected item locked on its Main attribute with the penalty
\* on its Sub attribute, so that 35 and 20 are projected
C13_Witness ==
    /\ e_pc = "projected" /\ DistinctCatalogLocks(e_item) /\ BothSet(e_item)
    /\ e_item.stat_tags[e_item.locked_attr] = STAT_TYPE_MAIN
    /\ e_item.stat_tags[e_item.penalty_attr] = STAT_TYPE_SUB
    /\ e_projection[e_item.locked_attr] = 35
    /\ e_projection[e_item.penalty_attr] = 20

\* the stored item after the projection is the item the constructor built:
\* attributes, stat tags, level, locked_attr and penalty_attr included
ProjectionKeepsItem ==
    e_pc = "projected" => e_item = PostInit(e_input).item

\* after calculate_combination the class inventory holds the items it held,
\* with every field as it was
CalculateKeepsInventory ==
    k_pc = "returned" => inventory = inventory0

\* C14: get_max_level_attributes is a pure read: for any item it leaves the
\* item's stored attributes, stat tags, level, locked_attr and penalty_attr
\* unchanged, and the map it returns has exactly the 6 catalog attributes as
\* its keys.
C14_PureReads ==
    /\ ProjectionKeepsItem
    /\ e_pc = "projected" => DOMAIN e_projection = Attrs

\* the constructor has returned an item
Constructed == e_pc \in {"built", "projected"}

\* the attributes the constructor was given a non-zero value for
NonZeroInputs == {a \in Attrs : e_input.attributes[a] # 0}

\* value is expected, to within slack thousandths
Within(value, expected, slack) ==
    /\ value >= expected * MILLI - slack
    /\ value <= expected * MILLI + slack

\* exactly three attributes are non-zero and hold 30, 25 and 20 in some
\* arrangement, and the item's stat tags are 1 Main on the 30, 1 Sub on the
\* 25, 1 Random on the 20 and 3 Supplement
WellFormedItem(slack) ==
    /\ Cardinality(NonZeroInputs) = 3
    /\ \E m, u, r \in NonZeroInputs :
          /\ NonZeroInputs = {m, u, r}
          /\ Within(e_input.attributes[m], 30, slack)
          /\ Within(e_input.attributes[u], 25, slack)
          /\ Within(e_input.attributes[r], 20, slack)
          /\ DOMAIN e_item.stat_tags = Attrs
          /\ {a \in Attrs : e_item.stat_tags[a] = "Main"} = {m}
          /\ {a \in Attrs : e_item.stat_tags[a] = "Sub"} = {u}
          /\ {a \in Attrs : e_item.stat_tags[a] = "Random"} = {r}
          /\ Cardinality({a \in Attrs : e_item.stat_tags[a] = "Supplement"}) = 3

\* the constructor either returns an item or raises a validation error
ReturnsOrRaises ==
    /\ Constructed => e_error = None
    /\ e_pc = "failed" => e_error # None

\* C15 as stated: construction succeeds only if exactly three attributes are
\* non-zero with the values 30, 25 and 20 in some arrangement, every
\* constructed item has 1 Main (on the 30), 1 Sub (on the 25), 1 Random (on
\* the 20) and 3 Supplement, and every other input raises a validation error.
C15_ExactBaseValues ==
    /\ ReturnsOrRaises
    /\ Constructed => WellFormedItem(0)

\* C15 amended: the same with every value compared to within 0.01, the
\* tolerance of the constructor's comparisons.
C15_BaseValuesWithinTolerance ==
    /\ ReturnsOrRaises
    /\ Constructed => WellFormedItem(TOLERANCE)

\* C15 witness: a constructed item that stores 30.005 on its Main attribute
C15_Witness ==
    /\ e_pc = "built"
    /\ \E a \in Attrs :
          /\ e_item.attributes[a] = 30 * MILLI + 5
          /\ e_item.stat_tags[a] = "Main"

\* the constructor was given a tag and has returned or raised
TaggedConstruction == e_input.tag # None /\ e_pc # "new"

\* the constructor was given exactly the value on attribute a
Holds(a, value) == e_input.attributes[a] = value * MILLI

\* the tag's Main holds 30, its Sub 25, r is a third attribute and holds 20,
\* and the three others hold 0
TagShaped(r) ==
    LET main_attr == EQUIPMENT_TAGS[e_input.tag][1]
        sub_attr == EQUIPMENT_TAGS[e_input.tag][2]
    IN /\ Holds(main_attr, 30) /\ Holds(sub_attr, 25)
       /\ r \notin {main_attr, sub_attr} /\ Holds(r, 20)
       /\ \A a \in Attrs \ {main_attr, sub_attr, r} : Holds(a, 0)

C16_RejectedMain ==
    /\ e_pc = "failed" /\ e_input.tag = "Brawler"
    /\ Holds("Health", 30) /\ Holds("Melee", 25) /\ Holds("Grenade", 20)
    /\ e_error = "main_value"

-----------------------------------------------------------------------------
(* Properties of calculate_combination, stated on the arguments and the    *)
(* returned dict of one call (SpecCalc).                                   *)

\* the positions of the id list whose id the inventory holds
FoundPositions == {i \in 1..Len(k_ids) : k_ids[i] \in InventoryIds(inventory0)}

\* the listed ids the inventory does not hold
MissingIds == {k_ids[i] : i \in 1..Len(k_ids)} \ InventoryIds(inventory0)

\* the ids the warnings of the result name
WarnedIds ==
    UNION {{k_result.warnings[w][i] : i \in 1..Len(k_result.warnings[w])} :
              w \in 1..Len(k_result.warnings)}

\* C17: for any id list the call returns; equipment_count is the
\* number of listed ids the inventory holds, plus 1 if an exotic item is
\* given; warnings is empty when no id is missing and otherwise names every
\* missing id; an empty list without an exotic item gives equipment_count 0
\* and no warnings.
C17_MissingIdsSkipped ==
    k_pc = "returned" =>
          /\ k_result.equipment_count =
                Cardinality(FoundPositions) + (IF k_exotic # NoExotic THEN 1 ELSE 0)
          /\ MissingIds = {} => k_result.warnings = <<>>
          /\ MissingIds # {} => k_result.warnings # <<>> /\ WarnedIds = MissingIds
          /\ (k_ids = <<>> /\ k_exotic = NoExotic) =>
                k_result.equipment_count = 0 /\ k_result.warnings = <<>>

\* C17 witness: a returned call with an exotic item, one id the inventory
\* holds and two different ids it does not hold
C17_Witness ==
    /\ k_pc = "returned" /\ k_exotic # NoExotic
    /\ Cardinality(FoundPositions) = 1 /\ Cardinality(MissingIds) = 2
    /\ k_result.equipment_count = 2

\* the sum, over the list entries found, of the item's max-level projection
RECURSIVE SumProjections(_, _)
SumProjections(positions, a) ==
    IF positions = {} THEN 0
    ELSE LET i == CHOOSE x \in positions : TRUE
         IN Get(get_max_level_attributes(get_equipment(inventory0, k_ids[i])), a)
               + SumProjections(positions \ {i}, a)

\* the sum, over the applied <<set, tier>> pairs, of the tier's bonus
RECURSIVE SumApplied(_, _)
SumApplied(pairs, a) ==
    IF pairs = {} THEN 0
    ELSE LET p == CHOOSE x \in pairs : TRUE
         IN Get(set_bonuses[p[1]][p[2]], a) + SumApplied(pairs \ {p}, a)

\* the totals are over all 6 attributes, each is the found items' max-level
\* projections plus the exotic item's value plus the applied set bonuses,
\* and total_sum is their sum
TotalsAggregated ==
    /\ Attrs \subseteq DOMAIN k_result.total_attributes
    /\ \A a \in Attrs :
          k_result.total_attributes[a] =
              SumProjections(FoundPositions, a)
                 + (IF k_exotic # NoExotic THEN Get(k_exotic.attributes, a) ELSE 0)
                 + SumApplied(k_result.set_bonuses, a)
    /\ k_result.total_sum =
          SumOver(k_result.total_attributes, DOMAIN k_result.total_attributes)

\* C18 as stated: for any id list and optional exotic item the totals are
\* aggregated as above, and an empty id list gives 0 for all 6 attributes.
C18_TotalsOfProjections ==
    k_pc = "returned" =>
        /\ TotalsAggregated
        /\ k_ids = <<>> => \A a \in Attrs : k_result.total_attributes[a] = 0

\* C18 amended: the totals are aggregated as above, and an empty id list
\* without an exotic item gives 0 for all 6 attributes; with an exotic item
\* an empty id list gives the exotic item's values.
C18_TotalsWithExoticCounted ==
    k_pc = "returned" =>
        /\ TotalsAggregated
        /\ k_ids = <<>> =>
              \A a \in Attrs :
                  k_result.total_attributes[a] =
                      IF k_exotic # NoExotic THEN k_exotic.attributes[a] ELSE 0

\* C18 witness: a returned call on the locked item with a stored penalty
\* (stored Melee 30, Health 25; projected 35 and 20), twice in the list with a
\* third item of the set, an exotic item and the bonus of tier 2
C18_Witness ==
    /\ k_pc = "returned" /\ k_exotic # NoExotic
    /\ k_ids = <<2, 2, 1>>
    /\ k_result.set_bonuses = {<<"Iron", 2>>}
    /\ k_result.total_attributes["Melee"] = 35 + 35 + 20 + 5
    /\ k_result.total_attributes["Health"] = 20 + 20 + 30 + 30 + 10

\* the set names of the found list entries
FoundSets ==
    {get_equipment(inventory0, k_ids[i]).set_name : i \in FoundPositions} \ {None}

\* the owned count of a set: the found list entries whose item is of the set
OwnedCount(s) ==
    Cardinality({i \in FoundPositions :
                    get_equipment(inventory0, k_ids[i]).set_name = s})

\* the piece counts registered for a set that the owned count reaches
ReachedTiers(s) ==
    IF s \in DOMAIN set_bonuses
    THEN {n \in DOMAIN set_bonuses[s] : n <= OwnedCount(s)} ELSE {}

\* the tiers the result applies for a set
TiersApplied(s) == {p[2] : p \in {q \in k_result.set_bonuses : q[1] = s}}

\* C19: for every set with a found item in the list, the owned count is the
\* number of found entries of the set (the exotic item is not counted), the
\* only tier applied is the largest registered piece count <= the owned
\* count, none is applied when every registered tier needs more pieces, and
\* no tier is applied for any other set.
C19_LargestTierApplied ==
    k_pc = "returned" =>
        /\ DOMAIN k_result.set_counts = FoundSets
        /\ \A p \in k_result.set_bonuses : p[1] \in FoundSets
        /\ \A s \in FoundSets :
              /\ k_result.set_counts[s] = OwnedCount(s)
              /\ ReachedTiers(s) = {} => TiersApplied(s) = {}
              /\ ReachedTiers(s) # {} =>
                    /\ Cardinality(TiersApplied(s)) = 1
                    /\ \A t \in TiersApplied(s) :
                          /\ t \in ReachedTiers(s)
                          /\ \A n \in ReachedTiers(s) : n <= t

\* C19 witness: tiers 2 and 4 registered for Iron, three different Iron items
\* and an exotic item in the call, and tier 2 alone applied
C19_Witness ==
    /\ k_pc = "returned" /\ k_exotic # NoExotic
    /\ "Iron" \in DOMAIN set_bonuses /\ DOMAIN set_bonuses["Iron"] = {2, 4}
    /\ Cardinality({k_ids[i] : i \in FoundPositions}) = 3
    /\ "Iron" \in FoundSets /\ OwnedCount("Iron") = 3
    /\ k_result.set_bonuses = {<<"Iron", 2>>}

\* every registered tier needs more pieces than are owned: none is applied
C19_NoTierReached ==
    /\ k_pc = "returned"
    /\ "Iron" \in DOMAIN set_bonuses /\ DOMAIN set_bonuses["Iron"] = {2, 4}
    /\ FoundSets = {"Iron"} /\ OwnedCount("Iron") = 1
    /\ k_result.set_bonuses = {}

\* four different Iron items: tier 4 alone is applied
C19_TopTierReached ==
    /\ k_pc = "returned"
    /\ Cardinality({k_ids[i] : i \in FoundPositions}) = 4
    /\ OwnedCount("Iron") = 4
    /\ k_result.set_bonuses = {<<"Iron", 4>>}

-----------------------------------------------------------------------------
(* Properties of _analyze_required_equipments, stated on the returned list *)
(* of one call (SpecAnalyze).                                              *)

\* C20: the returned list has at most 3 hypothetical items, no two of the
\* same equipment type, none of the exotic item's type when one is given,
\* in the order of non-increasing contribution score.
C20_RecommendationList ==
    a_pc = "returned" =>
        /\ Len(a_result) <= 3
        /\ \A i, j \in 1..Len(a_result) : i # j => a_result[i].type # a_result[j].type
        /\ a_exotic_type # None =>
              \A i \in 1..Len(a_result) : a_result[i].type # a_exotic_type
        /\ \A i \in 1..(Len(a_result) - 1) : a_result[i].score >= a_result[i + 1].score

\* C20 witness: three items returned with the exotic item on the Helmet slot,
\* the first with a larger score than the last, for four needed attributes
C20_Witness ==
    /\ a_pc = "returned" /\ a_exotic_type = "Helmet"
    /\ Len(a_target) = 4
    /\ Len(a_result) = 3
    /\ a_result[1].score > a_result[3].score

-----------------------------------------------------------------------------
(* The filler items of _analyze_required_equipments: the items the while   *)
(* loop appends after the per-attribute loop (SpecAnalyze).                *)

\* needed_attrs of the call
AnalyzeNeeded == needed_attrs(a_target, a_current)

\* the items of the per-attribute loop, and all items in the order of generation
DirectItems ==
    RecommendPerAttr(AnalyzeNeeded, 1, equipment_types(a_exotic_type), <<>>)

GeneratedItems ==
    RecommendGeneric(AnalyzeNeeded, equipment_types(a_exotic_type), DirectItems)

\* what attribute a still lacks after the first k generated items
RECURSIVE ShortfallAfter(_, _)
ShortfallAfter(a, k) ==
    IF k = 0 THEN ValueOf(AnalyzeNeeded, a)
    ELSE ShortfallAfter(a, k - 1) - GeneratedItems[k].contributions[a]

\* the needed attributes with the largest positive shortfall after k items
LargestShortfalls(k) ==
    {a \in KeySet(AnalyzeNeeded) :
        /\ ShortfallAfter(a, k) > 0
        /\ \A b \in KeySet(AnalyzeNeeded) : ShortfallAfter(b, k) <= ShortfallAfter(a, k)}

\* the positions of the filler items in the order of generation
FillerPositions == (Len(DirectItems) + 1)..Len(GeneratedItems)

\* item k gives attribute a the value v
Serves(k, a, v) == GeneratedItems[k].attributes[a] = v

\* filling stopped for one of the three reasons
FillerStops ==
    \/ Len(GeneratedItems) = RECOMMEND_LIMIT
    \/ Len(GeneratedItems) >= Len(equipment_types(a_exotic_type))
    \/ LargestShortfalls(Len(GeneratedItems)) = {}

\* every generated item is returned
AllReturned ==
    /\ Len(a_result) = Len(GeneratedItems)
    /\ \A k \in 1..Len(GeneratedItems) : \E i \in 1..Len(a_result) : a_result[i] = GeneratedItems[k]

\* the filler item serves a largest shortfall as Main or as Sub
FillerServesShortfall ==
    a_pc = "returned" /\ AnalyzeNeeded # <<>> =>
        /\ AllReturned /\ FillerStops
        /\ \A k \in FillerPositions :
              \E a \in LargestShortfalls(k - 1) :
                  a \in Attrs => Serves(k, a, MAIN_VALUE) \/ Serves(k, a, SUB_VALUE)

\* C21: when the per-attribute loop leaves fewer than 3 items and need
\* remains, each filler item has the tag whose Main attribute is an attribute
\* with the largest remaining shortfall (30 for it, not 25 as a Sub), and
\* filling stops at 3 items, when no type is left or when no need remains.
C21_FillerBestTag ==
    a_pc = "returned" /\ AnalyzeNeeded # <<>> =>
        /\ AllReturned /\ FillerStops
        /\ \A k \in FillerPositions :
              \E a \in LargestShortfalls(k - 1) :
                  a \in Attrs => Serves(k, a, MAIN_VALUE)

\* a filler item was generated for a catalog attribute
C21_FillerGenerated ==
    /\ a_pc = "returned"
    /\ FillerPositions # {}
    /\ \A k \in FillerPositions : LargestShortfalls(k - 1) \subseteq Attrs

-----------------------------------------------------------------------------
(* Properties of EquipmentManager (SpecManager), stated on the steps of    *)
(* add_equipment_simple: m_last' holds the call of the step, the unprimed  *)
(* variables the store before it.                                          *)

\* the step is an add_equipment_simple call
AddCalled == m_last'.op = "add"

AddClass == m_last'.args[1]

AddType == m_last'.args[2]

AddTag == m_last'.args[3]

AddRandomStat == m_last'.args[4]

AddLock == m_last'.args[5]

\* the type, the tag or the random stat is not in its catalog, or the random
\* stat is the Main or the Sub attribute of the tag
BadInput ==
    \/ \A i \in 1..Len(EQUIPMENT_TYPES) : EQUIPMENT_TYPES[i] # AddType
    \/ AddTag \notin DOMAIN EQUIPMENT_TAGS
    \/ AddRandomStat \notin Attrs
    \/ /\ AddTag \in DOMAIN EQUIPMENT_TAGS
       /\ AddRandomStat \in {EQUIPMENT_TAGS[AddTag][1], EQUIPMENT_TAGS[AddTag][2]}

\* a locked attribute is given that is not in the catalog
BadLock == AddLock # None /\ AddLock \notin Attrs

\* the call raised and left the inventories and the counters as they were
Rejected ==
    /\ m_last'.error # None
    /\ inventories' = inventories
    /\ equipment_counter' = equipment_counter

\* a bad type, tag or random stat is rejected
BadInputRejected == [][AddCalled /\ BadInput => Rejected]_vars

\* C22: add_equipment_simple raises a validation error, and leaves the
\* inventories and the id counters unchanged, when the type, the tag, the
\* random stat or the locked attribute is not in its catalog, or when the
\* random stat is the Main or the Sub attribute of the tag.
C22_InputsChecked == [][AddCalled /\ (BadInput \/ BadLock) => Rejected]_vars

\* the attributes an item holds as its random stat
RandomStatsOf(equipment) ==
    {a \in Attrs : equipment.stat_tags[a] = STAT_TYPE_RANDOM}

\* the item has the type, the tag, the random stat and the locked attribute
SameAs(equipment, type, tag, random_stat, locked_attr) ==
    /\ equipment.type = type /\ equipment.tag = tag
    /\ RandomStatsOf(equipment) = {random_stat}
    /\ equipment.locked_attr = locked_attr

\* no inventory holds two items that agree on all four
NoTwoAlike ==
    \A c \in ClassNames : \A i, j \in 1..Len(inventories[c]) :
        i # j => ~SameAs(inventories[c][i], inventories[c][j].type,
                         inventories[c][j].tag,
                         CHOOSE a \in RandomStatsOf(inventories[c][j]) : TRUE,
                         inventories[c][j].locked_attr)

\* the class inventory of the call holds an item like the one to add
WouldDuplicate ==
    \E i \in 1..Len(inventories[AddClass]) :
        SameAs(inventories[AddClass][i], AddType, AddTag, AddRandomStat, AddLock)

\* C23: from the empty store on, no class inventory ever holds two items with
\* the same type, tag, random stat and locked attribute, and an add that
\* would make two raises and changes neither the inventories nor the counter.
C23_NoDuplicates ==
    /\ []NoTwoAlike
    /\ [][AddCalled /\ WouldDuplicate => Rejected]_vars

\* C23 witness: with two items in Titan's inventory, adding the locked one
\* once more was refused
C23_Witness ==
    /\ m_last.op = "add" /\ m_last.error = "same_equipment"
    /\ m_last.args[1] = "Titan" /\ m_last.args[5] = "Melee"
    /\ Len(inventories["Titan"]) = 2

\* the item is in the inventory as it was
Kept(equipment, equipments) ==
    \E i \in 1..Len(equipments) : equipments[i] = equipment

\* C24: the id of a newly added item is the id of no item its class inventory
\* holds and was given out to no item since the start-up, whatever was added,
\* removed and loaded before; the add leaves every item in its place.
C24_FreshIds ==
    [][AddCalled /\ m_last'.error = None =>
          /\ m_last'.id \notin InventoryIds(inventories[AddClass])
          /\ m_last'.id \notin issued
          /\ m_last'.id \in InventoryIds(inventories'[AddClass])
          /\ \A c \in ClassNames : \A i \in 1..Len(inventories[c]) :
                Kept(inventories[c][i], inventories'[c])]_vars

\* C24 witness: Titan's inventory holds two items, the first was loaded at
\* the start-up and the second got its id since
C24_Witness ==
    /\ m_last.op = "add" /\ m_last.error = None
    /\ Len(inventories["Titan"]) = 2
    /\ inventories["Titan"][1].id \notin issued
    /\ inventories["Titan"][2].id = m_last.id
    /\ issued = {m_last.id}

-----------------------------------------------------------------------------
(* Properties of Inventory and ClassInventoryManager (SpecInventory),      *)
(* stated on the inventories, the log of the calls and the steps.          *)

\* the restriction is None or names the class
Allows(class_restriction, c) ==
    \/ class_restriction = NoRestriction
    \/ \E i \in 1..Len(class_restriction) : class_restriction[i] = c

\* every item an inventory holds is eligible for the class of the inventory
AllAllowed ==
    \A c \in ClassNames : \A i \in 1..Len(inventories[c]) :
        Allows(inventories[c][i].class_restriction, c)

\* the step is an Inventory.add_equipment call; its item and its class
InventoryAddCalled == m_last'.op = "inventory_add"

AddedItem == m_last'.args[1]

AddedTo == m_last'.args[2]

\* C25: Inventory.add_equipment on class C stores the item when its class
\* restriction is None or contains C; otherwise it raises the eligibility
\* error and leaves the inventory as it was; so every item an inventory holds
\* is eligible for its class.
C25_EligibleOnly ==
    /\ []AllAllowed
    /\ [][InventoryAddCalled =>
             IF Allows(AddedItem.class_restriction, AddedTo)
             THEN /\ m_last'.error = None
                  /\ Kept(AddedItem, inventories'[AddedTo])
                  /\ \A c \in ClassNames \ {AddedTo} : inventories'[c] = inventories[c]
             ELSE /\ m_last'.error = "not_eligible"
                  /\ inventories' = inventories]_vars

\* C25 witness: Titan's inventory holds an item, and Warlock's inventory
\* refused an item that is restricted to Titan
C25_Witness ==
    /\ m_last.op = "inventory_add" /\ m_last.error = "not_eligible"
    /\ m_last.args[2] = "Warlock" /\ m_last.args[1].class_restriction = <<"Titan">>
    /\ inventories["Titan"] # <<>>
    /\ inventories["Warlock"] = <<>>

\* the call adds an item with id i to the inventory of c
AddedFor(call, c, i) ==
    /\ \/ call.op = "manager_add"
       \/ call.op = "inventory_add" /\ call.args[2] = c
    /\ call.args[1].id = i
    /\ Allows(call.args[1].class_restriction, c)

\* the call removes id i from the inventory of c
RemovedFor(call, c, i) ==
    /\ call.op = "manager_remove"
    /\ call.args[1] = i
    /\ call.args[2] \in {None, c}

\* the calls of the log that added id i to c with no later remove
LastingAdds(c, i) ==
    {k \in 1..Len(m_log) :
        /\ AddedFor(m_log[k], c, i)
        /\ \A j \in (k + 1)..Len(m_log) : ~RemovedFor(m_log[j], c, i)}

\* an inventory holds an id exactly when a lasting add is in the log, and it
\* holds the item of the last one
HeldAsLogged ==
    \A c \in ClassNames : \A i \in {1, 2} :
        /\ i \in InventoryIds(inventories[c]) <=> LastingAdds(c, i) # {}
        /\ LastingAdds(c, i) # {} =>
              Kept(m_log[CHOOSE k \in LastingAdds(c, i) :
                            \A j \in LastingAdds(c, i) : j <= k].args[1],
                   inventories[c])

\* a remove takes the id from the inventories it targets and leaves the
\* others, and an inventory that does not hold the id, as they were
RemoveTouchesTargets ==
    m_last'.op = "manager_remove" =>
        \A c \in ClassNames :
            /\ InventoryIds(inventories'[c]) =
                  IF RemovedFor(m_last', c, m_last'.args[1])
                  THEN InventoryIds(inventories[c]) \ {m_last'.args[1]}
                  ELSE InventoryIds(inventories[c])
            /\ \A i \in 1..Len(inventories'[c]) : Kept(inventories'[c][i], inventories[c])
            /\ m_last'.args[1] \notin InventoryIds(inventories[c]) =>
                  inventories'[c] = inventories[c]

\* C26: after any calls of ClassInventoryManager.add_equipment and
\* remove_equipment, the inventory of class C holds id i exactly when an item
\* with id i was added whose restriction is None or contains C and no later
\* remove of i was for C or for every class; a remove with a class touches
\* that class only, and a remove of an absent id changes nothing.
C26_RoutedAndRemoved ==
    /\ []HeldAsLogged
    /\ [][RemoveTouchesTargets]_vars

\* C26 witness: an item for every class was added and then removed from
\* Titan alone: Hunter and Warlock still hold it
C26_Witness ==
    /\ Len(m_log) = 2
    /\ m_log[1].op = "manager_add" /\ m_log[1].args[1].class_restriction = NoRestriction
    /\ m_log[1].args[1].id = 1
    /\ m_last.op = "manager_remove" /\ m_last.args = <<1, "Titan">>
    /\ 1 \notin InventoryIds(inventories["Titan"])
    /\ 1 \in InventoryIds(inventories["Hunter"])
    /\ 1 \in InventoryIds(inventories["Warlock"])
-----------------------------------------------------------------------------
(* The search over inventories that hold an item as add_equipment_simple   *)
(* stores it for a lock it was handed unchecked: the locked attribute is   *)
(* no attribute of the catalog.                                            *)

\* the item of add_equipment_simple(Legs, Bulwark, Melee, locked_attr="Mobility")
UncheckedLockItem ==
    NewEquipment(5, "Legs", "Bulwark", "Melee", "Mobility", None, None)

LockInventories ==
    {<<UncheckedLockItem>>} \cup {<<ItemPool[i], UncheckedLockItem>> : i \in 1..3}

LockArgs ==
    [target_attributes : {<<<<"Health", 40>>>>, <<<<"Health", 150>>>>, <<<<"Melee", 80>>>>},
     max_equipments : {2}, exotic_equipment : {NoExotic},
     preferred_attr : {None, "Health"}]

LockInit == BonusIdle /\ OthersIdle /\ SearchInit({1}, LockInventories, {<<>>}, LockArgs)

SpecLock == LockInit /\ [][Next]_vars

-----------------------------------------------------------------------------
(* C27: the penalty assignments the search tries.                          *)

\* the items of combo with a lock and no stored penalty, as the inventory
\* held them before the search
NeedsPenalty(combo) ==
    {combo[i] : i \in {j \in 1..Len(combo) :
        /\ get_equipment(inventory0, combo[j]).locked_attr # None
        /\ get_equipment(inventory0, combo[j]).penalty_attr = None}}

\* penalty_config gives each such item of combo, and no other item, a
\* catalog attribute that is not the item's locked attribute
ValidAssignment(combo, penalty_config) ==
    /\ DOMAIN penalty_config = NeedsPenalty(combo)
    /\ \A id \in DOMAIN penalty_config :
          /\ penalty_config[id] \in Attrs
          /\ penalty_config[id] # get_equipment(inventory0, id).locked_attr

\* every candidate scored so far carries a valid assignment
TrialsValid ==
    \A p \in Procs : \A i \in Scored(p) :
        ValidAssignment(evaluated[p][i].combo, evaluated[p][i].penalty_config)

\* what a call has returned maps only such items of the returned combination
ReturnedValid ==
    \A p \in Procs :
        pc[p] = "done" => ValidAssignment(returned[p].combination,
                                          returned[p].penalty_configs)

\* the assignments scored for the subset the search worked on last
LastTrials(p) ==
    {evaluated[p][i].penalty_config :
        i \in {j \in Scored(p) : evaluated[p][j].combo = evaluated[p][Len(evaluated[p])].combo}}

\* a subset the search has gone through without returning was scored once
\* per assignment, 5^k assignments in all
LeftSubsetCounted(p) ==
    (pc[p] = "loop" /\ evaluated[p] # <<>>) =>
        LET combo == evaluated[p][Len(evaluated[p])].combo
            k == Cardinality(NeedsPenalty(combo))
            trials == {j \in Scored(p) : evaluated[p][j].combo = combo}
        IN /\ Cardinality(trials) = (Len(EQUIPMENT_ATTRIBUTES) - 1)^k
           /\ Cardinality(LastTrials(p)) = Cardinality(trials)

\* C27: a subset with k items that have a locked attribute and no stored
\* penalty is scored under exactly 5^k penalty assignments, each giving every
\* such item a catalog attribute other than its locked attribute; no other
\* item is assigned a penalty, and the penalty_configs of a result maps only
\* such items of the returned combination
C27_PenaltyAssignments ==
    /\ TrialsValid
    /\ ReturnedValid
    /\ \A p \in Procs : LeftSubsetCounted(p)
-----------------------------------------------------------------------------
(* C28: the allocation meets the targets whenever 5 units can.             *)

\* base + 10 per returned unit reaches the target on every target attribute
MeetsAfterBonuses ==
    \A a \in BTargetKeys :
        Get(b_base, a) + BONUS_VALUE * Get(b_result, a) >= ValueOf(b_target, a)

\* C28: the base plus 10 per unit of the returned allocation meets every
\* target attribute if and only if the sum over the target attributes of
\* ceil(max(0, target - base) / 10) is at most 5, and the returned units
\* never sum to more than 5
C28_MeetsWheneverPossible ==
    b_pc = "returned" =>
        /\ MeetsAfterBonuses <=> (TotalUnitsNeeded <= total_bonuses)
        /\ SumValues(b_result) <= total_bonuses

\* all 5 units are needed, on two attributes or more, one of them with a
\* shortfall that is no multiple of 10, and the allocation meets the targets
C28_Witness ==
    /\ b_pc = "returned"
    /\ TotalUnitsNeeded = total_bonuses
    /\ Cardinality(ShortAttrs) >= 2
    /\ \E a \in ShortAttrs : Shortfall(a) % BONUS_VALUE # 0
    /\ MeetsAfterBonuses
-----------------------------------------------------------------------------
(* C29: a constructed item stores no upgrade.                              *)

\* the attributes the item's stat_tags mark as Supplement
SupplementAttrs(equipment) ==
    {a \in Attrs : get_stat_tag(equipment, a) = STAT_TYPE_SUPPLEMENT}

\* the arguments hold the three base values and, on a fourth attribute, a
\* value from 1 to the level
ClaimsUpgrade(input) ==
    \E a \in Attrs :
        /\ input.attributes[a] >= 1 * MILLI
        /\ input.attributes[a] <= input.level * MILLI
        /\ \E m, s, r \in Attrs \ {a} :
              /\ Cardinality({m, s, r}) = 3
              /\ Near(input.attributes[m], MAIN_VALUE)
              /\ Near(input.attributes[s], SUB_VALUE)
              /\ Near(input.attributes[r], RANDOM_VALUE)

-----------------------------------------------------------------------------
(* C30: the shape of a returned combination.                               *)

\* the call has returned a dict that carries a combination
ReturnedCombination(p) == pc[p] = "done" /\ returned[p].combination # <<>>

\* distinct ids of the class inventory, from 1 to max_equipments of them
CombinationOfInventory ==
    \A p \in Procs : ReturnedCombination(p) =>
        LET combo == returned[p].combination
        IN /\ \A i, j \in 1..Len(combo) : combo[i] = combo[j] => i = j
           /\ \A i \in 1..Len(combo) : combo[i] \in InventoryIds(inventory0)
           /\ Len(combo) >= 1
           /\ Len(combo) <= args[p].max_equipments

\* no two items of one equipment type, none of the exotic item's type
OnePerType ==
    \A p \in Procs : ReturnedCombination(p) =>
        LET combo == returned[p].combination
            typeOf(id) == get_equipment(inventory0, id).type
        IN /\ \A i, j \in 1..Len(combo) : typeOf(combo[i]) = typeOf(combo[j]) => i = j
           /\ \A i \in 1..Len(combo) : typeOf(combo[i]) # args[p].exotic_equipment.type

\* C30: a returned combination consists of distinct ids of items of the class
\* inventory, has from 1 to max_equipments items, holds at most one item per
\* equipment type and no item of the exotic item's type
C30_WellFormedCombination == CombinationOfInventory /\ OnePerType

====
